---- MODULE Spec2Model ----
(***************************************************************************)
(* A model of proto2mysql (package proto2mysql): the table registry, the   *)
(* schema synchronizer with its live-column cache, the parameterized       *)
(* statement builders and the CRUD entry points built on them.             *)
(*                                                                         *)
(* Text is modelled as a sequence of tokens.  A column type such as        *)
(* "int NOT NULL DEFAULT 0" is the sequence of its blank-separated words;  *)
(* each word carries the parameters written in parentheses after it, so    *)
(* that "varchar(64)" is the word varchar with parameters <<64>>.          *)
(***************************************************************************)
EXTENDS Integers, Sequences, FiniteSets, TLC

VARIABLES
    Tables,            \* PbMysqlDB.Tables: table name -> MessageTable
    tableExistsCache,  \* PbMysqlDB.tableExistsCache: table name -> BOOLEAN
    db,                \* the database behind PbMysqlDB.DB: table name -> live table
    last,              \* outcome of the most recent public call
    running,           \* calls in flight on other goroutines: caller -> call
    saved              \* key -> the record the last successful Save stored

vars == <<Tables, tableExistsCache, db, last, running, saved>>

-----------------------------------------------------------------------------
(* Bounds *)

MaxFields == 3      \* declared fields of the largest registered message type
MaxRows   == 3      \* rows a live table holds at most
MaxBatch  == 2002   \* records handed to one BatchInsert at most

(* Program constants *)

PrimaryKeyIndex    == 0
BatchInsertMaxSize == 1000

-----------------------------------------------------------------------------
(* Generic helpers on sequences and functions *)

\* the nil error
Nil == "nil"

Range(s) == {s[i] : i \in DOMAIN s}

Min(a, b) == IF a < b THEN a ELSE b
Ceil(n, k) == (n + k - 1) \div k

EmptyMap == [x \in {} |-> x]

MapRemove(m, k) == [x \in (DOMAIN m) \ {k} |-> m[x]]

MapPut(m, k, v) == [x \in (DOMAIN m) \cup {k} |-> IF x = k THEN v ELSE m[x]]

\* the concatenation of the sequences in ss (halving keeps the nesting shallow)
RECURSIVE Flatten(_)
Flatten(ss) ==
    IF Len(ss) = 0 THEN <<>>
    ELSE IF Len(ss) = 1 THEN ss[1]
    ELSE LET h == Len(ss) \div 2
         IN Flatten(SubSeq(ss, 1, h)) \o Flatten(SubSeq(ss, h + 1, Len(ss)))

\* strings.Join over token sequences
RECURSIVE Join(_, _)
Join(ss, sep) ==
    IF Len(ss) = 0 THEN <<>>
    ELSE IF Len(ss) = 1 THEN ss[1]
    ELSE LET h == Len(ss) \div 2
         IN Join(SubSeq(ss, 1, h), sep) \o sep \o Join(SubSeq(ss, h + 1, Len(ss)), sep)

\* strings.Count of a one-token separator
CountTok(s, t) == Cardinality({i \in DOMAIN s : s[i] = t})

\* strings.Repeat of a token sequence
Repeat(s, n) == [i \in 1..(n * Len(s)) |-> s[((i - 1) % Len(s)) + 1]]

\* strings.TrimSuffix of a token sequence
TrimSuffix(s, suf) ==
    IF Len(s) >= Len(suf) /\ SubSeq(s, Len(s) - Len(suf) + 1, Len(s)) = suf
    THEN SubSeq(s, 1, Len(s) - Len(suf))
    ELSE s

-----------------------------------------------------------------------------
(* Column type text *)

W(s) == [w |-> s, paren |-> FALSE, p |-> <<>>]
WP(s, params) == [w |-> s, paren |-> TRUE, p |-> params]

\* strings.ToLower on one word
ToLower(s) ==
    CASE s = "MEDIUMTEXT" -> "mediumtext"
      [] s = "MEDIUMBLOB" -> "mediumblob"
      [] s = "TEXT"       -> "text"
      [] s = "DATETIME"   -> "datetime"
      [] s = "NOT"        -> "not"
      [] s = "NULL"       -> "null"
      [] s = "DEFAULT"    -> "default"
      [] s = "AUTO_INCREMENT" -> "auto_increment"
      [] s = "INT"        -> "int"
      [] s = "VARCHAR"    -> "varchar"
      [] OTHER            -> s

LowerWords(ws) == [i \in DOMAIN ws |-> [ws[i] EXCEPT !.w = ToLower(ws[i].w)]]

\* strings.ReplaceAll(text, " a b", ""): drops every occurrence of the two
\* adjacent words a b that has a word before it
RECURSIVE RemovePair(_, _, _, _)
RemovePair(ws, a, b, first) ==
    IF ws = <<>> THEN <<>>
    ELSE IF ~first /\ Len(ws) >= 2 /\ ws[1] = W(a) /\ ws[2] = W(b)
         THEN RemovePair(Tail(Tail(ws)), a, b, FALSE)
         ELSE <<Head(ws)>> \o RemovePair(Tail(ws), a, b, FALSE)

MySQLFieldTypesDomain ==
    {"int32", "uint32", "float", "string", "int64", "uint64", "double",
     "bool", "enum", "bytes", "message"}

MySQLFieldTypes(kind) ==
    CASE kind = "int32"   -> <<W("int"), W("NOT"), W("NULL"), W("DEFAULT"), W("0")>>
      [] kind = "uint32"  -> <<W("int"), W("unsigned"), W("NOT"), W("NULL"), W("DEFAULT"), W("0")>>
      [] kind = "float"   -> <<W("float"), W("NOT"), W("NULL"), W("DEFAULT"), W("0")>>
      [] kind = "string"  -> <<W("MEDIUMTEXT")>>
      [] kind = "int64"   -> <<W("bigint"), W("NOT"), W("NULL"), W("DEFAULT"), W("0")>>
      [] kind = "uint64"  -> <<W("bigint"), W("unsigned"), W("NOT"), W("NULL"), W("DEFAULT"), W("0")>>
      [] kind = "double"  -> <<W("double"), W("NOT"), W("NULL"), W("DEFAULT"), W("0")>>
      [] kind = "bool"    -> <<WP("tinyint", <<1>>), W("NOT"), W("NULL"), W("DEFAULT"), W("0")>>
      [] kind = "enum"    -> <<W("int"), W("NOT"), W("NULL"), W("DEFAULT"), W("0")>>
      [] kind = "bytes"   -> <<W("MEDIUMBLOB")>>
      [] kind = "message" -> <<W("MEDIUMBLOB")>>

timestampFullName == "google.protobuf.Timestamp"

mysqlTypeInfo(b, l, d, u) == [baseType |-> b, length |-> l, decimal |-> d, unsigned |-> u]

parseMySQLType(colType) ==
    LET parts == LowerWords(colType) IN
    IF Len(parts) = 0 THEN mysqlTypeInfo("", 0, 0, FALSE)
    ELSE
      LET basePart == parts[1]
          length  == IF basePart.paren /\ Len(basePart.p) >= 1 THEN basePart.p[1] ELSE 0
          decimal == IF basePart.paren /\ Len(basePart.p) >= 2 THEN basePart.p[2] ELSE 0
          unsigned == \E i \in 2..Len(parts) : parts[i] = W("unsigned")
      IN mysqlTypeInfo(basePart.w, length, decimal, unsigned)

typeMap(base) ==
    CASE base = "bool"      -> "tinyint"
      [] base = "integer"   -> "int"
      [] base = "timestamp" -> "datetime"
      [] OTHER              -> base

isTypeMatch(currentType, targetType) ==
    LET current == parseMySQLType(currentType)
        target  == parseMySQLType(targetType)
        currentBase == typeMap(current.baseType)
        targetBase  == typeMap(target.baseType)
    IN IF currentBase # targetBase THEN FALSE
       ELSE IF currentBase \in {"varchar", "char"}
            THEN target.length >= current.length
       ELSE IF currentBase \in {"int", "bigint", "tinyint", "smallint"}
            THEN current.unsigned = target.unsigned
       ELSE IF currentBase \in {"float", "double"}
            THEN target.decimal >= current.decimal
       ELSE TRUE

mysqlKeywords ==
    {"SELECT", "INSERT", "UPDATE", "DELETE", "FROM", "WHERE", "AND", "OR",
     "JOIN", "ON", "IN", "NOT", "NULL", "PRIMARY", "KEY", "INDEX", "UNIQUE",
     "AUTO_INCREMENT", "INT", "VARCHAR", "TEXT", "BLOB", "DATETIME",
     "TIMESTAMP", "FLOAT", "DOUBLE", "BOOL", "TINYINT", "BIGINT"}

\* strings.ToUpper on the identifiers the model uses
ToUpper(s) ==
    CASE s = "key"   -> "KEY"
      [] s = "index" -> "INDEX"
      [] OTHER       -> s

\* the identifier in backquotes, as one token (written here with braces)
Backticked(name) ==
    CASE name = "key"   -> "{key}"
      [] name = "index" -> "{index}"
      [] OTHER          -> name

escapeMySQLName(name) ==
    IF ToUpper(name) \in mysqlKeywords THEN Backticked(name) ELSE name

-----------------------------------------------------------------------------
(* Message types (protoreflect descriptors) and records *)

FD(n, k) == [name |-> n, kind |-> k, card |-> "single", msg |-> ""]
ListOf(n, k, elem) == [name |-> n, kind |-> k, card |-> "list", msg |-> elem]
MapOf(n) == [name |-> n, kind |-> "message", card |-> "map", msg |-> ""]

IsList(fd) == fd.card = "list"
IsMap(fd)  == fd.card = "map"

FieldPool ==
    <<FD("id", "int32"), FD("name", "string"), FD("key", "uint32"),
      FD("flag", "bool"), FD("score", "double"), FD("rank", "int64")>>

FullNames  == <<"pkg.T0", "pkg.T1", "pkg.T2", "pkg.T3", "pkg.T4", "pkg.T5", "pkg.T6">>
ShortNames == <<"T0", "T1", "T2", "T3", "T4", "T5", "T6">>

\* the message type with the first n fields of the pool
Descriptor(n) ==
    [fullName |-> FullNames[n + 1], name |-> ShortNames[n + 1],
     fields |-> SubSeq(FieldPool, 1, n)]

PlainNames == <<"U0", "U1", "U2", "U3", "U4", "U5", "U6">>

\* the same type declared without a package: its full name is its name
PlainDescriptor(n) ==
    [fullName |-> PlainNames[n + 1], name |-> PlainNames[n + 1],
     fields |-> SubSeq(FieldPool, 1, n)]

FieldNames(desc) == {desc.fields[i].name : i \in DOMAIN desc.fields}

GetTableName(desc) == desc.fullName

-----------------------------------------------------------------------------
(* MessageTable *)

NoField == ""

NilColumns == [populated |-> FALSE, cols |-> EmptyMap]

TableOptions(pk, auto, nullable) ==
    [primaryKey |-> pk, autoIncreaseKey |-> auto, nullableFields |-> nullable,
     indexes |-> <<>>, uniqueKeys |-> ""]

\* the options followed by WithIndexes and WithUniqueKey
WithIndexes(opts, indexes, uniqueKey) ==
    [opts EXCEPT !.indexes = indexes, !.uniqueKeys = uniqueKey]

NoOptions == TableOptions(<<>>, NoField, <<>>)

getMySQLFieldType(m, fieldDesc) ==
    IF fieldDesc.msg = timestampFullName
    THEN IF fieldDesc.name \in Range(m.nullableFields)
         THEN <<W("DATETIME")>>
         ELSE <<W("DATETIME"), W("NOT"), W("NULL")>>
    ELSE IF IsMap(fieldDesc) \/ IsList(fieldDesc) THEN <<W("MEDIUMBLOB")>>
    ELSE
      LET base0 == IF fieldDesc.kind \in MySQLFieldTypesDomain
                   THEN MySQLFieldTypes(fieldDesc.kind)
                   ELSE <<W("TEXT")>>
          base1 == IF fieldDesc.name \in Range(m.nullableFields)
                   THEN RemovePair(base0, "NOT", "NULL", TRUE)
                   ELSE base0
      IN IF m.autoIncreaseKey = fieldDesc.name
         THEN RemovePair(base1, "DEFAULT", "0", TRUE) \o <<W("AUTO_INCREMENT")>>
         ELSE base1

\* the MessageTable literal built by RegisterTable, after the options ran
NewMessageTable(desc, opts) ==
    [tableName |-> GetTableName(desc),
     Descriptor |-> desc,
     primaryKey |-> opts.primaryKey,
     autoIncreaseKey |-> opts.autoIncreaseKey,
     nullableFields |-> opts.nullableFields,
     indexes |-> opts.indexes,
     uniqueKeys |-> opts.uniqueKeys,
     primaryKeyField |-> NoField,
     fieldNameToDesc |-> EmptyMap,
     fieldsListSQL |-> <<>>,
     selectFieldsSQL |-> <<>>,
     selectAllSQLWithSemicolon |-> <<>>,
     selectAllSQLWithoutSemicolon |-> <<>>,
     insertSQLTemplate |-> <<>>,
     replaceSQL |-> <<>>,
     deleteByPKTemplate |-> <<>>,
     cachedColumns |-> NilColumns]

\* fieldCount := strings.Count(m.fieldsListSQL, ",") + 1
InitFieldCount(fieldsListSQL) == CountTok(fieldsListSQL, ",") + 1

\* MessageTable.Init
MessageTableInit(m) ==
    LET desc == m.Descriptor
        tbl  == escapeMySQLName(m.tableName)
        fieldsListSQL ==
            Join([i \in DOMAIN desc.fields |-> <<escapeMySQLName(desc.fields[i].name)>>], <<",">>)
        selectFieldsSQL == <<"SELECT">> \o fieldsListSQL \o <<"FROM", tbl>>
        fieldCount == InitFieldCount(fieldsListSQL)
        placeholders == TrimSuffix(Repeat(<<"?", ",">>, fieldCount), <<",">>)
        pkField == IF Len(m.primaryKey) > 0
                      /\ m.primaryKey[PrimaryKeyIndex + 1] \in FieldNames(desc)
                   THEN m.primaryKey[PrimaryKeyIndex + 1]
                   ELSE NoField
    IN [m EXCEPT
          !.fieldNameToDesc =
              [n \in FieldNames(desc) |->
                  CHOOSE fd \in Range(desc.fields) : fd.name = n],
          !.fieldsListSQL = fieldsListSQL,
          !.selectFieldsSQL = selectFieldsSQL,
          !.selectAllSQLWithSemicolon = selectFieldsSQL \o <<";">>,
          !.selectAllSQLWithoutSemicolon = selectFieldsSQL,
          !.insertSQLTemplate =
              <<"INSERT INTO", tbl, "(">> \o fieldsListSQL
                  \o <<")", "VALUES", "(">> \o placeholders \o <<")">>,
          !.replaceSQL =
              <<"REPLACE INTO", tbl, "(">> \o fieldsListSQL \o <<")", "VALUES", "(">>,
          !.primaryKeyField = pkField,
          !.deleteByPKTemplate =
              IF pkField # NoField
              THEN <<"DELETE FROM", tbl, "WHERE", escapeMySQLName(pkField), "=", "?">>
              ELSE <<>>]

-----------------------------------------------------------------------------
(* The database collaborator *)

NoTable == [exists |-> FALSE, cols |-> EmptyMap, rows |-> <<>>]

\* COLUMN_TYPE the catalog reports for a column defined with the given type
ColumnType(target) ==
    LET ws == LowerWords(target) IN
    IF Len(ws) >= 2 /\ ws[2] = W("unsigned") THEN <<ws[1], ws[2]>> ELSE <<ws[1]>>

Clause(action, name, type) == [action |-> action, name |-> name, type |-> type]

Stmt(kind, table, clauses, ok) ==
    [kind |-> kind, table |-> table, clauses |-> clauses, ok |-> ok,
     sql |-> <<>>, args |-> <<>>]

\* MessageTable.GetCreateTableSQL: a clause per field, then the PRIMARY KEY
\* clause, then a clause per index and the UNIQUE KEY clause (an index
\* entry names one column)
GetCreateTableSQL(m) ==
    LET fields ==
          [i \in DOMAIN m.Descriptor.fields |->
              LET field == m.Descriptor.fields[i]
                  fieldType == getMySQLFieldType(m, field)
              IN Clause("COLUMN", escapeMySQLName(field.name),
                        IF m.autoIncreaseKey = field.name
                        THEN fieldType \o <<W("AUTO_INCREMENT")>>
                        ELSE fieldType)]
        key == IF Len(m.primaryKey) > 0
               THEN <<Clause("PRIMARY KEY", "",
                             [i \in DOMAIN m.primaryKey |-> escapeMySQLName(m.primaryKey[i])])>>
               ELSE <<>>
        indexes ==
          [idx \in DOMAIN m.indexes |->
              Clause("INDEX", "idx_" \o m.tableName \o "_" \o ToString(idx - 1),
                     <<escapeMySQLName(m.indexes[idx])>>)]
        unique == IF m.uniqueKeys # ""
                  THEN <<Clause("UNIQUE KEY", "uk_" \o m.tableName,
                                <<escapeMySQLName(m.uniqueKeys)>>)>>
                  ELSE <<>>
    IN fields \o key \o indexes \o unique

\* the identifier a (possibly backquoted) token denotes
Unquote(tok) ==
    CASE tok = "{key}"   -> "key"
      [] tok = "{index}" -> "index"
      [] OTHER           -> tok

\* the clauses of the given kind
ClausesOf(clauses, action) == SelectSeq(clauses, LAMBDA c : c.action = action)

\* CREATE TABLE IF NOT EXISTS: a table that exists is left as it is; a
\* table created with a PRIMARY KEY clause has that key
DbCreateTable(t, clauses) ==
    IF t.exists THEN t
    ELSE LET columns == ClausesOf(clauses, "COLUMN")
             keys == ClausesOf(clauses, "PRIMARY KEY")
             made == [exists |-> TRUE,
                      cols |-> [n \in {Unquote(columns[i].name) : i \in DOMAIN columns} |->
                                  ColumnType((CHOOSE c \in Range(columns) :
                                                 Unquote(c.name) = n).type)],
                      rows |-> <<>>]
         IN IF keys = <<>> THEN made
            ELSE [exists |-> TRUE, cols |-> made.cols, rows |-> <<>>,
                  key |-> [i \in DOMAIN keys[1].type |-> Unquote(keys[1].type[i])]]

\* the engine rejects an ALTER that adds a column that exists or modifies
\* one that does not
DbAlterValid(t, clauses) ==
    /\ t.exists
    /\ \A i \in DOMAIN clauses :
          IF clauses[i].action = "ADD COLUMN"
          THEN Unquote(clauses[i].name) \notin DOMAIN t.cols
          ELSE Unquote(clauses[i].name) \in DOMAIN t.cols

RECURSIVE DbAlter(_, _)
DbAlter(t, clauses) ==
    IF clauses = <<>> THEN t
    ELSE DbAlter([t EXCEPT !.cols = MapPut(t.cols, Unquote(Head(clauses).name),
                                           ColumnType(Head(clauses).type))],
                 Tail(clauses))

-----------------------------------------------------------------------------
(* Records (proto.Message values) and the field codec used by the builders *)

Zero(kind) ==
    CASE kind = "string" -> ""
      [] kind = "bytes"  -> ""
      [] kind = "bool"   -> FALSE
      [] OTHER           -> 0

\* the non-zero value the model's records carry in a field of the kind
Sample(kind) ==
    CASE kind = "string" -> "a"
      [] kind = "bytes"  -> "797a"
      [] kind = "bool"   -> TRUE
      [] kind = "uint32" -> 5
      [] kind = "double" -> 2
      [] kind = "int64"  -> 9
      [] kind = "sint32" -> 3
      [] OTHER           -> 7

\* a record of type desc on which exactly the fields in has are set
Message(desc, has) ==
    [desc |-> desc, has |-> has,
     val |-> [n \in FieldNames(desc) |->
                LET fd == CHOOSE f \in Range(desc.fields) : f.name = n
                IN IF n \in has THEN Sample(fd.kind) ELSE Zero(fd.kind)]]

Messages(desc) == {Message(desc, h) : h \in SUBSET FieldNames(desc)}

Has(message, fieldDesc) == fieldDesc.name \in message.has

Serialized(v) == [val |-> v, err |-> Nil]

\* byte strings are written in hexadecimal; base64.StdEncoding of the byte
\* strings the model's records hold
Base64Table ==
    [b \in {"", "78", "797a", "0807"} |->
        CASE b = ""     -> ""
          [] b = "78"   -> "eA=="
          [] b = "797a" -> "eXo="
          [] b = "0807" -> "CAc="]

EncodeToString(b) == Base64Table[b]

\* base64.StdEncoding.DecodeString
DecodeString(s) ==
    IF \E b \in DOMAIN Base64Table : Base64Table[b] = s
    THEN [ok |-> TRUE, v |-> CHOOSE b \in DOMAIN Base64Table : Base64Table[b] = s]
    ELSE [ok |-> FALSE, v |-> ""]

\* proto.Marshal of a nested message with the one field n = 1 (varint): a
\* message whose field is zero has no bytes
Marshal(n) == IF n = 0 THEN "" ELSE "080" \o ToString(n)

\* proto.Unmarshal into a nested message
Unmarshal(b) ==
    IF \E n \in 0..9 : Marshal(n) = b
    THEN [ok |-> TRUE, v |-> CHOOSE n \in 0..9 : Marshal(n) = b]
    ELSE [ok |-> FALSE, v |-> 0]

\* Time.Format("2006-01-02 15:04:05") of a Timestamp, by its seconds
FormatTime(seconds) == "1970-01-01 00:00:0" \o ToString(seconds)

\* time.Parse with the three layouts ParseFromString tries
ParseTime(s) ==
    IF \E sec \in 0..9 : FormatTime(sec) = s
    THEN [ok |-> TRUE, v |-> CHOOSE sec \in 0..9 : FormatTime(sec) = s]
    ELSE IF s = "1970-01-01" THEN [ok |-> TRUE, v |-> 0]
    ELSE [ok |-> FALSE, v |-> 0]

\* pbconv.SerializeFieldAsString
SerializeFieldAsString(message, fieldDesc) ==
    LET v == message.val[fieldDesc.name] IN
    IF fieldDesc.kind = "message" /\ fieldDesc.msg = timestampFullName
    THEN IF ~Has(message, fieldDesc) THEN Serialized("")
         \* AsTime().IsZero() is the year 1, which no Timestamp here denotes
         ELSE Serialized(FormatTime(v))
    ELSE IF IsMap(fieldDesc) \/ IsList(fieldDesc)
    THEN IF ~Has(message, fieldDesc) THEN Serialized("")
         \* proto.Marshal of a wrapper whose ProtoReflect() is nil
         ELSE [val |-> "", err |-> "panic"]
    ELSE IF fieldDesc.kind \in {"int32", "uint32", "int64", "uint64", "enum", "float", "double"}
    THEN Serialized(ToString(v))
    ELSE IF fieldDesc.kind = "string" THEN Serialized(v)
    ELSE IF fieldDesc.kind = "bool" THEN Serialized(IF v THEN "true" ELSE "false")
    ELSE IF fieldDesc.kind = "bytes" THEN Serialized(EncodeToString(v))
    ELSE IF fieldDesc.kind = "message"
    THEN IF Has(message, fieldDesc) THEN Serialized(EncodeToString(Marshal(v)))
         ELSE Serialized("")
    ELSE [val |-> "", err |-> "ErrInvalidFieldKind"]

\* the numbers the model's columns hold
Numbers == 0..9

\* strconv.ParseInt / ParseUint / ParseFloat / ParseBool of a non-empty
\* column value
ParseValue(kind, s) ==
    IF kind \in {"int32", "uint32", "int64", "uint64", "enum", "float", "double", "sint32"}
    THEN IF \E v \in Numbers : ToString(v) = s
         THEN [ok |-> TRUE, v |-> CHOOSE v \in Numbers : ToString(v) = s]
         ELSE [ok |-> FALSE, v |-> 0]
    ELSE IF kind = "bool"
    THEN IF s \in {"1", "t", "T", "TRUE", "true", "True"} THEN [ok |-> TRUE, v |-> TRUE]
         ELSE IF s \in {"0", "f", "F", "FALSE", "false", "False"} THEN [ok |-> TRUE, v |-> FALSE]
         ELSE [ok |-> FALSE, v |-> FALSE]
    ELSE [ok |-> TRUE, v |-> s]

\* reflection.Set on a field without explicit presence
SetField(message, fieldDesc, v) ==
    [message EXCEPT
        !.val[fieldDesc.name] = v,
        !.has = IF v = Zero(fieldDesc.kind)
                THEN message.has \ {fieldDesc.name}
                ELSE message.has \cup {fieldDesc.name}]

\* reflection.Mutable on a nested message field, then Unmarshal into it: the
\* field is present whatever it holds
SetMessage(message, fieldDesc, v) ==
    [message EXCEPT !.val[fieldDesc.name] = v, !.has = @ \cup {fieldDesc.name}]

\* pbconv.ParseFromString from field i on: the record as far as it was
\* filled, and the error that stopped the loop
RECURSIVE ParseFrom(_, _, _)
ParseFrom(message, row, i) ==
    IF i > Len(message.desc.fields) THEN [msg |-> message, err |-> Nil]
    ELSE IF i > Len(row) THEN ParseFrom(message, row, i + 1)
    ELSE
      LET fieldDesc == message.desc.fields[i]
          fieldValue == row[i]
      IN IF fieldDesc.kind = "message" /\ fieldDesc.msg = timestampFullName
         THEN IF fieldValue = "" THEN ParseFrom(message, row, i + 1)
              ELSE IF ~ParseTime(fieldValue).ok THEN [msg |-> message, err |-> "parse"]
              \* reflection.Set of a bytes value on a message field
              ELSE [msg |-> message, err |-> "panic"]
         ELSE IF IsMap(fieldDesc) \/ IsList(fieldDesc)
         THEN IF fieldValue = "" THEN ParseFrom(message, row, i + 1)
              ELSE IF ~DecodeString(fieldValue).ok THEN [msg |-> message, err |-> "parse"]
              \* proto.Unmarshal into a wrapper whose ProtoReflect() is nil
              ELSE [msg |-> message, err |-> "panic"]
         ELSE IF fieldValue = ""
         THEN ParseFrom(IF fieldDesc.kind \in {"int32", "int64", "uint32", "uint64",
                                               "float", "double", "bool", "string"}
                        THEN SetField(message, fieldDesc, Zero(fieldDesc.kind))
                        ELSE message,
                        row, i + 1)
         ELSE IF fieldDesc.kind \in {"int32", "int64", "uint32", "uint64", "float",
                                     "double", "string", "bool", "enum"}
         THEN LET p == ParseValue(fieldDesc.kind, fieldValue) IN
              IF ~p.ok THEN [msg |-> message, err |-> "parse"]
              ELSE ParseFrom(SetField(message, fieldDesc, p.v), row, i + 1)
         ELSE IF fieldDesc.kind = "bytes"
         THEN LET data == DecodeString(fieldValue) IN
              IF ~data.ok THEN [msg |-> message, err |-> "parse"]
              ELSE ParseFrom(SetField(message, fieldDesc, data.v), row, i + 1)
         ELSE IF fieldDesc.kind = "message"
         THEN LET data == DecodeString(fieldValue) IN
              IF ~data.ok \/ ~Unmarshal(data.v).ok THEN [msg |-> message, err |-> "parse"]
              ELSE ParseFrom(SetMessage(message, fieldDesc, Unmarshal(data.v).v), row, i + 1)
         ELSE [msg |-> message, err |-> "ErrInvalidFieldKind"]

ParseFromString(message, row) == ParseFrom(message, row, 1)

-----------------------------------------------------------------------------
(* Statement builders *)

SqlWithArgs(sql, args) == [ok |-> TRUE, Sql |-> sql, Args |-> args, err |-> Nil]

\* a builder's (nil, err) return
NoSql(err) == [ok |-> FALSE, Sql |-> <<>>, Args |-> <<>>, err |-> err]

\* the loop that serializes the given fields in order, stopping at the first error
RECURSIVE SerializeFields(_, _)
SerializeFields(message, fields) ==
    IF fields = <<>> THEN [args |-> <<>>, err |-> Nil]
    ELSE LET s == SerializeFieldAsString(message, Head(fields)) IN
         IF s.err # Nil THEN [args |-> <<>>, err |-> s.err]
         ELSE LET rest == SerializeFields(message, Tail(fields)) IN
              IF rest.err # Nil THEN rest
              ELSE [args |-> <<s.val>> \o rest.args, err |-> Nil]

\* a GetInsertSQLWithArgs that writes the values into the statement text
GetInsertSQLWithArgs_Literal(m, message) ==
    LET s == SerializeFields(message, m.Descriptor.fields)
        tpl == m.insertSQLTemplate
    IN IF s.err # Nil THEN NoSql(s.err)
       ELSE SqlWithArgs([i \in DOMAIN tpl |->
                           IF tpl[i] = "?" /\ CountTok(SubSeq(tpl, 1, i), "?") <= Len(s.args)
                           THEN s.args[CountTok(SubSeq(tpl, 1, i), "?")]
                           ELSE tpl[i]],
                        <<>>)

\* MessageTable.GetInsertSQLWithArgs
GetInsertSQLWithArgs(m, message) ==
    LET s == SerializeFields(message, m.Descriptor.fields) IN
    IF s.err # Nil THEN NoSql(s.err)
    ELSE SqlWithArgs(m.insertSQLTemplate, s.args)

\* the len(messages) > BatchInsertMaxSize test
BatchTooLarge_OffByOne(n) == n > BatchInsertMaxSize + 1
BatchTooLarge(n) == n > BatchInsertMaxSize

\* strings.Repeat("?, ", fieldCount) cut by its last two bytes
BatchValueGroup(fieldCount) ==
    LET r == Repeat(<<"?", ",">>, fieldCount) IN SubSeq(r, 1, Len(r) - 1)

\* MessageTable.GetBatchInsertSQLWithArgs
GetBatchInsertSQLWithArgs(m, messages) ==
    IF Len(messages) = 0 THEN NoSql("no messages to insert")
    ELSE IF BatchTooLarge(Len(messages)) THEN NoSql("ErrBatchSizeExceeded")
    ELSE IF \E i \in 2..Len(messages) : messages[i].desc # messages[1].desc
    THEN NoSql("messages have different descriptors")
    ELSE
      LET fieldCount == Len(m.Descriptor.fields)
          rows == [i \in DOMAIN messages |-> SerializeFields(messages[i], m.Descriptor.fields)]
          failed == {i \in DOMAIN rows : rows[i].err # Nil}
      IN IF failed # {}
         THEN NoSql(rows[CHOOSE i \in failed : \A j \in failed : i <= j].err)
         \* slicing the empty repeat by [:-2] panics
         ELSE IF fieldCount = 0 THEN NoSql("panic")
         ELSE SqlWithArgs(
                <<"INSERT INTO", escapeMySQLName(m.tableName), "(">> \o m.fieldsListSQL
                   \o <<")", "VALUES", "(">>
                   \o Join([i \in DOMAIN messages |-> BatchValueGroup(fieldCount)],
                           <<")", ",", "(">>)
                   \o <<")">>,
                Flatten([i \in DOMAIN rows |-> rows[i].args]))

\* the fields of the record that are present, in declared order
RECURSIVE PresentFields(_, _)
PresentFields(message, fields) ==
    IF fields = <<>> THEN <<>>
    ELSE IF Has(message, Head(fields))
         THEN <<Head(fields)>> \o PresentFields(message, Tail(fields))
         ELSE PresentFields(message, Tail(fields))

\* "name = ?" for each field, joined by the separator
Assignments(fields, sep) ==
    Join([i \in DOMAIN fields |-> <<escapeMySQLName(fields[i].name), "=", "?">>], sep)

\* MessageTable.GetInsertOnDupUpdateSQLWithArgs
GetInsertOnDupUpdateSQLWithArgs(m, message) ==
    LET insertSQL == GetInsertSQLWithArgs(m, message) IN
    IF ~insertSQL.ok THEN insertSQL
    ELSE
      LET present == PresentFields(message, m.Descriptor.fields)
          update == SerializeFields(message, present)
      IN IF update.err # Nil THEN NoSql(update.err)
         ELSE IF Len(present) = 0 THEN insertSQL
         ELSE SqlWithArgs(
                insertSQL.Sql \o <<"ON DUPLICATE KEY UPDATE">> \o Assignments(present, <<",">>),
                insertSQL.Args \o update.args)

\* MessageTable.GetInsertOnDupKeyForPrimaryKeyWithArgs
GetInsertOnDupKeyForPrimaryKeyWithArgs(m, message) ==
    IF m.primaryKeyField = NoField THEN NoSql("ErrPrimaryKeyNotFound")
    ELSE
      LET insertSQL == GetInsertSQLWithArgs(m, message) IN
      IF ~insertSQL.ok THEN insertSQL
      ELSE
        LET pk == SerializeFieldAsString(message, m.fieldNameToDesc[m.primaryKeyField]) IN
        IF pk.err # Nil THEN NoSql(pk.err)
        ELSE SqlWithArgs(
               insertSQL.Sql \o <<"ON DUPLICATE KEY UPDATE",
                                  escapeMySQLName(m.primaryKeyField), "=", "?">>,
               Append(insertSQL.Args, pk.val))

\* MessageTable.GetSelectSQLByKVWithArgs
GetSelectSQLByKVWithArgs(m, whereKey, whereVal) ==
    IF whereKey \notin DOMAIN m.fieldNameToDesc THEN NoSql("ErrFieldNotFound")
    ELSE SqlWithArgs(
           m.selectFieldsSQL \o <<"WHERE", escapeMySQLName(whereKey), "=", "?", ";">>,
           <<whereVal>>)

\* MessageTable.GetSelectSQLByWhereWithArgs
GetSelectSQLByWhereWithArgs(m, whereClause, whereArgs) ==
    SqlWithArgs(m.selectFieldsSQL \o <<"WHERE">> \o whereClause \o <<";">>, whereArgs)

\* MessageTable.GetSelectSQL
GetSelectSQL(m, includeSemicolon) ==
    IF includeSemicolon THEN m.selectAllSQLWithSemicolon
    ELSE m.selectAllSQLWithoutSemicolon

\* MessageTable.GetDeleteSQLWithArgs
GetDeleteSQLWithArgs_NoCheck(m, message) ==
    SqlWithArgs(<<"DELETE FROM", escapeMySQLName(m.tableName), "WHERE", "1=1">>, <<>>)
GetDeleteSQLWithArgs(m, message) ==
    IF m.primaryKeyField = NoField THEN NoSql("ErrPrimaryKeyNotFound")
    ELSE
      LET s == SerializeFieldAsString(message, m.fieldNameToDesc[m.primaryKeyField]) IN
      IF s.err # Nil THEN NoSql(s.err)
      ELSE SqlWithArgs(m.deleteByPKTemplate, <<s.val>>)

\* MessageTable.GetReplaceSQLWithArgs
GetReplaceSQLWithArgs(m, message) ==
    LET s == SerializeFields(message, m.Descriptor.fields) IN
    IF s.err # Nil THEN NoSql(s.err)
    ELSE SqlWithArgs(
           m.replaceSQL \o TrimSuffix(Repeat(<<"?", ",">>, Len(s.args)), <<",">>) \o <<")">>,
           s.args)

\* MessageTable.GetUpdateSetWithArgs
GetUpdateSetWithArgs(m, message) ==
    LET present == PresentFields(message, m.Descriptor.fields)
        s == SerializeFields(message, present)
    IN IF s.err # Nil THEN [setClause |-> <<>>, args |-> <<>>, err |-> s.err]
       ELSE [setClause |-> Assignments(present, <<",">>), args |-> s.args, err |-> Nil]

\* the WHERE loop of GetUpdateSQLWithArgs over the configured primary key
RECURSIVE UpdateWhere(_, _, _)
UpdateWhere(m, message, keys) ==
    IF keys = <<>> THEN [clause |-> <<>>, args |-> <<>>, err |-> Nil]
    ELSE IF Head(keys) \notin DOMAIN m.fieldNameToDesc
    THEN [clause |-> <<>>, args |-> <<>>, err |-> "ErrFieldNotFound"]
    ELSE
      LET s == SerializeFieldAsString(message, m.fieldNameToDesc[Head(keys)]) IN
      IF s.err # Nil THEN [clause |-> <<>>, args |-> <<>>, err |-> s.err]
      ELSE
        LET rest == UpdateWhere(m, message, Tail(keys)) IN
        IF rest.err # Nil THEN rest
        ELSE [clause |-> <<escapeMySQLName(Head(keys)), "=", "?">>
                            \o (IF rest.clause = <<>> THEN <<>> ELSE <<"AND">> \o rest.clause),
              args |-> <<s.val>> \o rest.args,
              err |-> Nil]

\* MessageTable.GetUpdateSQLWithArgs
GetUpdateSQLWithArgs(m, message) ==
    LET set == GetUpdateSetWithArgs(m, message) IN
    IF set.err # Nil THEN NoSql(set.err)
    ELSE IF set.setClause = <<>> THEN NoSql("no fields to update")
    ELSE
      LET where == UpdateWhere(m, message, m.primaryKey) IN
      IF where.err # Nil THEN NoSql(where.err)
      ELSE IF where.clause = <<>> THEN NoSql("ErrPrimaryKeyNotFound")
      ELSE SqlWithArgs(
             <<"UPDATE", escapeMySQLName(m.tableName), "SET">> \o set.setClause
                \o <<"WHERE">> \o where.clause,
             set.args \o where.args)

-----------------------------------------------------------------------------
(* The database collaborator: execution of the statements the builders make *)

\* position of the first token t in s, 0 if there is none
IndexOf(s, t) ==
    IF \E i \in DOMAIN s : s[i] = t
    THEN CHOOSE i \in DOMAIN s : s[i] = t /\ \A j \in 1..(i - 1) : s[j] # t
    ELSE 0

Without(s, toks) == SelectSeq(s, LAMBDA x : x \notin toks)

\* "col = value" groups of a SET or WHERE clause, separators dropped; a
\* value is a placeholder or a literal
Terms(tokens) ==
    LET ws == Without(tokens, {"AND", ",", ";", "1=1"}) IN
    [i \in 1..(Len(ws) \div 3) |->
        [col |-> Unquote(ws[3 * i - 2]), lit |-> ws[3 * i]]]

\* the value of term i, its placeholder bound to the next unused argument
TermValue(terms, args, i) ==
    IF terms[i].lit = "?"
    THEN args[Cardinality({j \in 1..i : terms[j].lit = "?"})]
    ELSE terms[i].lit

Matches(row, terms, args) ==
    \A i \in DOMAIN terms : row[terms[i].col] = TermValue(terms, args, i)

TermsValid(t, terms) == \A i \in DOMAIN terms : terms[i].col \in DOMAIN t.cols

\* one SELECT cols FROM tbl WHERE clause: the matching rows in table order,
\* each as the selected columns in order
DbSelect(d, sql, args) ==
    LET from  == IndexOf(sql, "FROM")
        cols  == Without(SubSeq(sql, 2, from - 1), {","})
        tbl   == Unquote(sql[from + 1])
        terms == Terms(SubSeq(sql, from + 3, Len(sql)))
        valid == /\ Len(sql) > 2 /\ sql[1] = "SELECT"
                 /\ from > 2 /\ Len(sql) > from + 2 /\ sql[from + 2] = "WHERE"
                 /\ tbl \in DOMAIN d /\ d[tbl].exists
                 /\ \A i \in DOMAIN cols : Unquote(cols[i]) \in DOMAIN d[tbl].cols
                 /\ TermsValid(d[tbl], terms)
                 /\ CountTok(sql, "?") = Len(args)
    IN IF ~valid THEN [ok |-> FALSE, rows |-> <<>>]
       ELSE [ok |-> TRUE,
             rows |-> LET hit == SelectSeq(d[tbl].rows, LAMBDA r : Matches(r, terms, args))
                      IN [i \in DOMAIN hit |->
                            [j \in DOMAIN cols |-> hit[i][Unquote(cols[j])]]]]

\* the statements of a text, split at the semicolons
RECURSIVE Statements(_)
Statements(sql) ==
    LET i == IndexOf(sql, ";") IN
    IF i = 0 THEN (IF sql = <<>> THEN <<>> ELSE <<sql>>)
    ELSE (IF i = 1 THEN <<>> ELSE <<SubSeq(sql, 1, i - 1)>>)
            \o Statements(SubSeq(sql, i + 1, Len(sql)))

\* DB.Query: one result set per statement, the arguments bound to the
\* placeholders from left to right; the query fails as a whole
DbQuery(d, sql, args) ==
    LET parts == Statements(sql)
        before(k) == CountTok(Flatten(SubSeq(parts, 1, k - 1)), "?")
        sets == [k \in DOMAIN parts |->
                   DbSelect(d, parts[k],
                            SubSeq(args, before(k) + 1, before(k) + CountTok(parts[k], "?")))]
    IN IF parts = <<>> \/ CountTok(sql, "?") # Len(args)
          \/ \E k \in DOMAIN sets : ~sets[k].ok
       THEN [ok |-> FALSE, sets |-> <<>>]
       ELSE [ok |-> TRUE, sets |-> [k \in DOMAIN sets |-> sets[k].rows]]

\* INSERT INTO tbl (cols) VALUES (?, ..), (..): one row per value group
DbInsert(d, sql, args) ==
    LET tbl   == Unquote(sql[2])
        close == IndexOf(sql, ")")
        cols  == Without(SubSeq(sql, 4, close - 1), {","})
        n     == Len(cols)
        valid == /\ tbl \in DOMAIN d /\ d[tbl].exists
                 /\ n > 0
                 /\ \A i \in DOMAIN cols : Unquote(cols[i]) \in DOMAIN d[tbl].cols
                 /\ CountTok(sql, "?") = Len(args)
                 /\ Len(args) % n = 0
    IN IF ~valid THEN [ok |-> FALSE, table |-> tbl, rows |-> <<>>]
       ELSE [ok |-> TRUE, table |-> tbl,
             rows |-> [k \in 1..(Len(args) \div n) |->
                         [c \in DOMAIN d[tbl].cols |->
                            IF \E j \in 1..n : Unquote(cols[j]) = c
                            THEN args[(k - 1) * n + (CHOOSE j \in 1..n : Unquote(cols[j]) = c)]
                            ELSE ""]]]

\* UPDATE tbl SET assignments WHERE terms
DbUpdate(d, sql, args) ==
    LET tbl   == Unquote(sql[2])
        where == IndexOf(sql, "WHERE")
        sets  == Terms(SubSeq(sql, 4, where - 1))
        terms == Terms(SubSeq(sql, where + 1, Len(sql)))
        all   == sets \o terms
        valid == /\ tbl \in DOMAIN d /\ d[tbl].exists
                 /\ where > 4
                 /\ TermsValid(d[tbl], all)
                 /\ CountTok(sql, "?") = Len(args)
    IN IF ~valid THEN [ok |-> FALSE, table |-> tbl, rows |-> <<>>]
       ELSE [ok |-> TRUE, table |-> tbl,
             rows |-> [k \in DOMAIN d[tbl].rows |->
                         LET r == d[tbl].rows[k] IN
                         IF \A i \in DOMAIN terms :
                               r[terms[i].col] = TermValue(all, args, Len(sets) + i)
                         THEN [c \in DOMAIN r |->
                                 IF \E i \in DOMAIN sets : sets[i].col = c
                                 THEN TermValue(all, args,
                                        CHOOSE i \in DOMAIN sets :
                                           /\ sets[i].col = c
                                           /\ \A j \in DOMAIN sets : sets[j].col = c => j <= i)
                                 ELSE r[c]]
                         ELSE r]]

\* DELETE FROM tbl WHERE terms
DbDelete(d, sql, args) ==
    LET tbl   == Unquote(sql[2])
        terms == Terms(SubSeq(sql, 4, Len(sql)))
        valid == /\ tbl \in DOMAIN d /\ d[tbl].exists
                 /\ Len(sql) > 3
                 /\ TermsValid(d[tbl], terms)
                 /\ CountTok(sql, "?") = Len(args)
    IN IF ~valid THEN [ok |-> FALSE, table |-> tbl, rows |-> <<>>]
       ELSE [ok |-> TRUE, table |-> tbl,
             rows |-> SelectSeq(d[tbl].rows, LAMBDA r : ~Matches(r, terms, args))]

\* the columns of the live table's primary key, none on a table without one
TableKey(t) == IF "key" \in DOMAIN t THEN t.key ELSE <<>>

\* two rows collide on the table's primary key
SameKey(t, r1, r2) ==
    /\ TableKey(t) # <<>>
    /\ \A i \in DOMAIN TableKey(t) : r1[TableKey(t)[i]] = r2[TableKey(t)[i]]

\* a REPLACE that deletes nothing
DbReplace_Append(d, sql, args) ==
    LET r == DbInsert(d, sql, args) IN
    IF ~r.ok THEN r ELSE [r EXCEPT !.rows = d[r.table].rows \o r.rows]

\* REPLACE INTO tbl (cols) VALUES (...): the rows that collide with a new
\* row on the primary key are deleted, then the new rows are inserted
DbReplace(d, sql, args) ==
    LET r == DbInsert(d, sql, args) IN
    IF ~r.ok THEN r
    ELSE [r EXCEPT !.rows =
            SelectSeq(d[r.table].rows,
                      LAMBDA old : \A k \in DOMAIN r.rows :
                                      ~SameKey(d[r.table], old, r.rows[k]))
                \o r.rows]

\* DB.Exec: the outcome and the rows the table holds afterwards
DbExec(d, sql, args) ==
    IF Len(sql) < 2 THEN [ok |-> FALSE, table |-> "", rows |-> <<>>]
    ELSE IF sql[1] = "INSERT INTO"
    THEN LET r == DbInsert(d, sql, args) IN
         IF r.ok THEN [r EXCEPT !.rows = d[r.table].rows \o r.rows] ELSE r
    ELSE IF sql[1] = "REPLACE INTO" THEN DbReplace(d, sql, args)
    ELSE IF sql[1] = "UPDATE" THEN DbUpdate(d, sql, args)
    ELSE IF sql[1] = "DELETE FROM" THEN DbDelete(d, sql, args)
    ELSE [ok |-> FALSE, table |-> sql[2], rows |-> <<>>]

\* the database after a statement that succeeded
DbAfter(d, r) == [d EXCEPT ![r.table].rows = r.rows]

\* a statement sent with Exec or Query, and whether it succeeded
Sent(kind, q, ok) ==
    [kind |-> kind, table |-> "", clauses |-> <<>>, ok |-> ok, sql |-> q.Sql, args |-> q.Args]

-----------------------------------------------------------------------------
(* Call outcomes *)

\* the record of a call: what it returned, the statements it sent, the
\* statement a builder returned, the caller's record after the call, and the
\* live table and column cache the call found; seq alternates from call to call
Call(op, table, err, stmts) ==
    [op |-> op, table |-> table, err |-> err, stmts |-> stmts,
     built |-> NoSql(Nil), arg |-> <<>>, dest |-> <<>>,
     liveBefore |-> IF table \in DOMAIN db THEN db[table] ELSE NoTable,
     cacheBefore |-> IF table \in DOMAIN Tables
                     THEN Tables[table].cachedColumns ELSE NilColumns,
     seq |-> 1 - last.seq]

NoCall == [op |-> "none", table |-> "", err |-> Nil, stmts |-> <<>>,
           built |-> NoSql(Nil), arg |-> <<>>, dest |-> <<>>,
           liveBefore |-> NoTable, cacheBefore |-> NilColumns, seq |-> 0]

\* the record of a direct call of a statement builder
Built(op, table, arg, result) ==
    [Call(op, table, result.err, <<>>) EXCEPT !.built = result, !.arg = arg]

Return(call, newTables, newExistsCache, newDb) ==
    /\ Tables' = newTables
    /\ tableExistsCache' = newExistsCache
    /\ db' = newDb
    /\ last' = call
    /\ UNCHANGED <<running, saved>>

-----------------------------------------------------------------------------
(* Table registry *)

\* PbMysqlDB.RegisterTable: the entry is stored under the full type name
RegisterTable_KeepCache(desc, opts) ==
    LET tableName == GetTableName(desc)
        table == NewMessageTable(desc, opts)
        kept == IF tableName \in DOMAIN Tables
                THEN [table EXCEPT !.cachedColumns = Tables[tableName].cachedColumns]
                ELSE table
    IN Return([Call("RegisterTable", tableName, Nil, <<>>) EXCEPT
                  !.arg = opts,
                  !.dest = IF tableName \in DOMAIN Tables
                           THEN <<Tables[tableName]>> ELSE <<>>],
              MapPut(Tables, tableName, MessageTableInit(kept)),
              tableExistsCache, db)
RegisterTable(desc, opts) ==
    LET tableName == GetTableName(desc)
        table == NewMessageTable(desc, opts)
    IN Return([Call("RegisterTable", tableName, Nil, <<>>) EXCEPT
                  !.arg = opts,
                  !.dest = IF tableName \in DOMAIN Tables
                           THEN <<Tables[tableName]>> ELSE <<>>],
              MapPut(Tables, tableName, MessageTableInit(table)),
              tableExistsCache, db)

-----------------------------------------------------------------------------
(* Schema synchronizer *)

\* PbMysqlDB.IsTableExists
IsTableExists(tableName, queryFails) ==
    IF tableName \in DOMAIN tableExistsCache
    THEN [exists |-> tableExistsCache[tableName], err |-> Nil,
          cache |-> tableExistsCache, stmts |-> <<>>]
    ELSE IF queryFails
    THEN [exists |-> FALSE, err |-> "db", cache |-> tableExistsCache,
          stmts |-> <<Stmt("QUERY TABLES", tableName, <<>>, FALSE)>>]
    ELSE [exists |-> db[tableName].exists, err |-> Nil,
          cache |-> MapPut(tableExistsCache, tableName, db[tableName].exists),
          stmts |-> <<Stmt("QUERY TABLES", tableName, <<>>, TRUE)>>]

\* PbMysqlDB.updateTableExistsCache
updateTableExistsCache(cache, tableName, exists) == MapPut(cache, tableName, exists)

\* PbMysqlDB.getTableColumns: the map it returns IS the cached map (on a hit
\* table.cachedColumns itself, on a miss the map it has just stored), so
\* "cache" is the cache after the call and "columns" its contents
getTableColumns(tableName, queryFails) ==
    LET table == Tables[tableName] IN
    IF table.cachedColumns.populated
    THEN [columns |-> table.cachedColumns.cols, err |-> Nil,
          cache |-> table.cachedColumns, stmts |-> <<>>]
    ELSE IF queryFails
    THEN [columns |-> EmptyMap, err |-> "db", cache |-> table.cachedColumns,
          stmts |-> <<Stmt("QUERY COLUMNS", tableName, <<>>, FALSE)>>]
    ELSE [columns |-> db[tableName].cols, err |-> Nil,
          cache |-> [populated |-> TRUE, cols |-> db[tableName].cols],
          stmts |-> <<Stmt("QUERY COLUMNS", tableName, <<>>, TRUE)>>]

\* a clearColumnCache that leaves the cached map in place
clearColumnCache_Keep(cache) == cache

\* PbMysqlDB.clearColumnCache
clearColumnCache(cache) == NilColumns

\* what delete(currentCols, fieldName) leaves of the map
DeleteProcessed(currentCols, fieldName) == MapRemove(currentCols, fieldName)

\* the field loop of UpdateTableField, from field i on
RECURSIVE SyncFields(_, _, _, _, _)
SyncFields(table, fields, i, currentCols, alterSQLs) ==
    IF i > Len(fields) THEN [cols |-> currentCols, alterSQLs |-> alterSQLs]
    ELSE
      LET fieldDesc  == fields[i]
          fieldName  == fieldDesc.name
          targetType == getMySQLFieldType(table, fieldDesc)
      IN IF fieldName \in DOMAIN currentCols
         THEN SyncFields(table, fields, i + 1,
                  DeleteProcessed(currentCols, fieldName),
                  IF ~isTypeMatch(currentCols[fieldName], targetType)
                  THEN Append(alterSQLs,
                          Clause("MODIFY COLUMN", escapeMySQLName(fieldName), targetType))
                  ELSE alterSQLs)
         ELSE SyncFields(table, fields, i + 1, currentCols,
                  Append(alterSQLs,
                      Clause("ADD COLUMN", escapeMySQLName(fieldName), targetType)))

SetCache(tables, tableName, cache) ==
    [tables EXCEPT ![tableName].cachedColumns = cache]

\* the body of PbMysqlDB.UpdateTableField(m), m of type desc, entered from
\* the public operation op after the statements in sent; fails names the
\* database call that returns an error (the handler returns at its first
\* error)
UpdateTableFieldFrom(op, sent, desc, fails) ==
    LET tableName == GetTableName(desc) IN
    IF tableName \notin DOMAIN Tables
    THEN Return(Call(op, tableName, "ErrTableNotFound", sent), Tables, tableExistsCache, db)
    ELSE
      LET table == Tables[tableName]
          exists == IsTableExists(tableName, fails = "exists")
          ex == [exists EXCEPT !.stmts = sent \o @]
      IN
      IF ex.err # Nil
      THEN Return(Call(op, tableName, ex.err, ex.stmts), Tables, ex.cache, db)
      ELSE IF ~ex.exists
      THEN
        LET createSQL == GetCreateTableSQL(table) IN
        IF fails = "create"
        THEN Return(Call(op, tableName, "db",
                         ex.stmts \o <<Stmt("CREATE", tableName, createSQL, FALSE)>>),
                    Tables, ex.cache, db)
        ELSE Return(Call(op, tableName, Nil,
                         ex.stmts \o <<Stmt("CREATE", tableName, createSQL, TRUE)>>),
                    Tables, updateTableExistsCache(ex.cache, tableName, TRUE),
                    [db EXCEPT ![tableName] = DbCreateTable(@, createSQL)])
      ELSE
        LET got == getTableColumns(tableName, fails = "columns") IN
        IF got.err # Nil
        THEN Return(Call(op, tableName, got.err, ex.stmts \o got.stmts),
                    Tables, ex.cache, db)
        ELSE
          LET sync == SyncFields(table, desc.fields, 1, got.columns, <<>>)
              \* currentCols aliases the cached map: the deletes land in the cache
              pruned == [got.cache EXCEPT !.cols = sync.cols]
              alterOK == fails # "alter" /\ DbAlterValid(db[tableName], sync.alterSQLs)
              alter == Stmt("ALTER", tableName, sync.alterSQLs, alterOK)
          IN
          IF Len(sync.alterSQLs) > 0
          THEN IF ~alterOK
               THEN Return(Call(op, tableName, "db", ex.stmts \o got.stmts \o <<alter>>),
                           SetCache(Tables, tableName, pruned), ex.cache, db)
               ELSE Return(Call(op, tableName, Nil, ex.stmts \o got.stmts \o <<alter>>),
                           SetCache(Tables, tableName, clearColumnCache(pruned)),
                           ex.cache,
                           [db EXCEPT ![tableName] = DbAlter(@, sync.alterSQLs)])
          ELSE Return(Call(op, tableName, Nil, ex.stmts \o got.stmts),
                      SetCache(Tables, tableName, pruned), ex.cache, db)

\* PbMysqlDB.UpdateTableField
UpdateTableField(desc, fails) ==
    UpdateTableFieldFrom("UpdateTableField", <<>>, desc, fails)

\* PbMysqlDB.CreateOrUpdateTable: a CREATE that fails is logged and the
\* operation goes on with UpdateTableField
CreateOrUpdateTable(desc, createFails, fails) ==
    LET tableName == GetTableName(desc)
        op == "CreateOrUpdateTable"
    IN
    IF tableName \notin DOMAIN Tables
    THEN Return(Call(op, tableName, "ErrTableNotFound", <<>>), Tables, tableExistsCache, db)
    ELSE
      LET createSQL == GetCreateTableSQL(Tables[tableName]) IN
      IF ~createFails
      THEN Return(Call(op, tableName, Nil, <<Stmt("CREATE", tableName, createSQL, TRUE)>>),
                  Tables, updateTableExistsCache(tableExistsCache, tableName, TRUE),
                  [db EXCEPT ![tableName] = DbCreateTable(@, createSQL)])
      ELSE UpdateTableFieldFrom(op, <<Stmt("CREATE", tableName, createSQL, FALSE)>>,
                                desc, fails)

-----------------------------------------------------------------------------
(* Specification of the synchronizer: types are registered and synchronized *)
(* against a database in which one table may already exist                 *)

SyncTypes == {Descriptor(n) : n \in 1..MaxFields}

SyncTableNames == {GetTableName(d) : d \in SyncTypes}

SyncOptions ==
    {NoOptions,
     WithIndexes(TableOptions(<<"id">>, "id", <<"name">>), <<"name">>, "key")}

LiveTypes == {<<W("int")>>, <<W("mediumtext")>>}

LiveColumnNames == FieldNames(Descriptor(MaxFields)) \cup {"legacy"}

LiveColumnMaps ==
    UNION {[S -> LiveTypes] : S \in SUBSET LiveColumnNames}

Failures == {"none", "exists", "create", "columns", "alter"}

InitSync ==
    /\ Tables = EmptyMap
    /\ tableExistsCache = EmptyMap
    /\ \E t \in SyncTableNames, cols \in LiveColumnMaps, e \in BOOLEAN :
          db = [n \in SyncTableNames |->
                  IF n = t /\ e
                  THEN [exists |-> TRUE, cols |-> cols, rows |-> <<>>]
                  ELSE NoTable]
    /\ last = NoCall
    /\ running = EmptyMap
    /\ saved = EmptyMap

\* the workload registers one message type (and may register it again)
SyncRegister ==
    \E d \in SyncTypes, o \in SyncOptions :
        /\ DOMAIN Tables \subseteq {GetTableName(d)}
        /\ \A n \in SyncTableNames \ {GetTableName(d)} : ~db[n].exists
        /\ RegisterTable(d, o)

SyncUpdate == \E d \in SyncTypes, f \in Failures : UpdateTableField(d, f)

NextSync == SyncRegister \/ SyncUpdate

SpecSync == InitSync /\ [][NextSync]_vars

-----------------------------------------------------------------------------
(* Properties of the synchronizer *)

IsSync(call) == call.op = "UpdateTableField"

AlterStmts(call) == {i \in DOMAIN call.stmts : call.stmts[i].kind = "ALTER"}

AlterSucceeded(call) == \E i \in AlterStmts(call) : call.stmts[i].ok

\* the call read the live columns, from the cache or from the catalog
ReadColumns(call) ==
    \/ call.cacheBefore.populated
    \/ \E i \in DOMAIN call.stmts :
          call.stmts[i].kind = "QUERY COLUMNS" /\ call.stmts[i].ok

\* the clauses of the ALTER statement the call sent, if it sent one
AlterClauses(call) ==
    IF AlterStmts(call) = {} THEN <<>>
    ELSE call.stmts[CHOOSE i \in AlterStmts(call) : TRUE].clauses

ClauseNames(clauses, action) ==
    {Unquote(clauses[i].name) : i \in {j \in DOMAIN clauses : clauses[j].action = action}}

\* C1: when UpdateTableField has returned nil for a type whose live table
\* already existed, the next call of UpdateTableField for that type, with
\* nothing changed in between, sends no ALTER statement.
C1_SecondSyncIssuesNoAlter ==
    [][(/\ IsSync(last) /\ last.err = Nil /\ last.liveBefore.exists
        /\ IsSync(last') /\ last'.table = last.table)
       => AlterStmts(last') = {}]_vars

\* C2: after UpdateTableField the column cache of the table is unpopulated
\* if the call's ALTER succeeded; if the ALTER failed or none was needed,
\* a cache that the call found or made populated is still populated.
C2_CacheClearedOnlyAfterSuccessfulAlter ==
    (IsSync(last) /\ last.table \in DOMAIN Tables) =>
        /\ AlterSucceeded(last) => ~Tables[last.table].cachedColumns.populated
        /\ (~AlterSucceeded(last) /\ ReadColumns(last))
              => Tables[last.table].cachedColumns.populated

\* a populated cache was cleared by a successful ALTER
C2_Witness ==
    /\ IsSync(last) /\ last.table \in DOMAIN Tables
    /\ AlterSucceeded(last)
    /\ last.cacheBefore.populated
    /\ ~Tables[last.table].cachedColumns.populated

\* a failed ALTER left the cache populated
C2_WitnessFailed ==
    /\ IsSync(last) /\ last.table \in DOMAIN Tables
    /\ AlterStmts(last) # {} /\ ~AlterSucceeded(last)
    /\ Tables[last.table].cachedColumns.populated

\* C3: for a registered type whose table exists, UpdateTableField sends at
\* most one ALTER statement; it has an ADD COLUMN clause for exactly the
\* declared fields absent from the live table, a MODIFY COLUMN clause for
\* exactly the declared fields present with an incompatible type, and no
\* other clause.
C3_AlterClausesMatchLiveTable ==
    (/\ IsSync(last) /\ last.table \in DOMAIN Tables
     /\ last.liveBefore.exists
     /\ (last.err = Nil \/ AlterStmts(last) # {})) =>
        LET table == Tables[last.table]
            live == last.liveBefore.cols
            declared == table.Descriptor.fields
            absent == {declared[i].name : i \in
                         {j \in DOMAIN declared : declared[j].name \notin DOMAIN live}}
            incompatible == {declared[i].name : i \in
                         {j \in DOMAIN declared :
                             /\ declared[j].name \in DOMAIN live
                             /\ ~isTypeMatch(live[declared[j].name],
                                             getMySQLFieldType(table, declared[j]))}}
            clauses == AlterClauses(last)
        IN /\ Cardinality(AlterStmts(last)) <= 1
           /\ ClauseNames(clauses, "ADD COLUMN") = absent
           /\ ClauseNames(clauses, "MODIFY COLUMN") = incompatible
           /\ Len(clauses) = Cardinality(absent) + Cardinality(incompatible)

-----------------------------------------------------------------------------
(* Specification of the statement builders: a type is registered and the   *)
(* builders of its MessageTable are called on records of the type          *)

OddDescriptor ==
    [fullName |-> "pkg.Odd", name |-> "Odd",
     fields |-> <<FD("id", "int32"), FD("delta", "sint32")>>]

SqlTypes == {Descriptor(n) : n \in 0..MaxFields} \cup {OddDescriptor}

SqlOptions ==
    {NoOptions,
     TableOptions(<<"id">>, "id", <<>>),
     TableOptions(<<"id", "name">>, NoField, <<>>),
     TableOptions(<<"missing">>, NoField, <<>>)}

\* the record batches handed to the batch builder: short ones of any
\* records and one of mixed types
Batches(desc) ==
    {<<>>}
    \cup {<<a>> : a \in Messages(desc)}
    \cup {<<Message(desc, {}), b>> : b \in Messages(desc)}
    \cup {<<Message(desc, {}), Message(OddDescriptor, {})>>}

\* long batches around the size limit
BatchSizes == {BatchInsertMaxSize - 1, BatchInsertMaxSize, BatchInsertMaxSize + 1}

LongBatches(desc) == {[i \in 1..n |-> Message(desc, {})] : n \in BatchSizes}

InitSql ==
    /\ Tables = EmptyMap
    /\ tableExistsCache = EmptyMap
    /\ db = EmptyMap
    /\ last = NoCall
    /\ running = EmptyMap
    /\ saved = EmptyMap

Unchanged(call) == Return(call, Tables, tableExistsCache, db)

SqlRegister ==
    \E d \in SqlTypes, o \in SqlOptions :
        /\ DOMAIN Tables \subseteq {GetTableName(d)}
        /\ RegisterTable(d, o)

BuildInsert ==
    \E t \in DOMAIN Tables : \E msg \in Messages(Tables[t].Descriptor) :
        Unchanged(Built("GetInsertSQLWithArgs", t, msg,
                        GetInsertSQLWithArgs(Tables[t], msg)))

BuildBatchInsert ==
    \E t \in DOMAIN Tables : \E msgs \in Batches(Tables[t].Descriptor) :
        Unchanged(Built("GetBatchInsertSQLWithArgs", t, msgs,
                        GetBatchInsertSQLWithArgs(Tables[t], msgs)))

\* the builder is a function of the table and the records alone; the long
\* batches are tried once per registration
BuildLongBatchInsert ==
    /\ last.op = "RegisterTable"
    /\ \E t \in DOMAIN Tables : \E msgs \in LongBatches(Tables[t].Descriptor) :
          Unchanged(Built("GetBatchInsertSQLWithArgs", t, msgs,
                          GetBatchInsertSQLWithArgs(Tables[t], msgs)))

BuildInsertOnDupUpdate ==
    \E t \in DOMAIN Tables : \E msg \in Messages(Tables[t].Descriptor) :
        Unchanged(Built("GetInsertOnDupUpdateSQLWithArgs", t, msg,
                        GetInsertOnDupUpdateSQLWithArgs(Tables[t], msg)))

BuildInsertOnDupKey ==
    \E t \in DOMAIN Tables : \E msg \in Messages(Tables[t].Descriptor) :
        Unchanged(Built("GetInsertOnDupKeyForPrimaryKeyWithArgs", t, msg,
                        GetInsertOnDupKeyForPrimaryKeyWithArgs(Tables[t], msg)))

BuildReplace ==
    \E t \in DOMAIN Tables : \E msg \in Messages(Tables[t].Descriptor) :
        Unchanged(Built("GetReplaceSQLWithArgs", t, msg,
                        GetReplaceSQLWithArgs(Tables[t], msg)))

BuildUpdate ==
    \E t \in DOMAIN Tables : \E msg \in Messages(Tables[t].Descriptor) :
        Unchanged(Built("GetUpdateSQLWithArgs", t, msg,
                        GetUpdateSQLWithArgs(Tables[t], msg)))

BuildDelete ==
    \E t \in DOMAIN Tables : \E msg \in Messages(Tables[t].Descriptor) :
        Unchanged(Built("GetDeleteSQLWithArgs", t, msg,
                        GetDeleteSQLWithArgs(Tables[t], msg)))

BuildSelectByKV ==
    \E t \in DOMAIN Tables : \E k \in {"id", "name", "missing"}, v \in {"7", "a"} :
        Unchanged(Built("GetSelectSQLByKVWithArgs", t, <<k, v>>,
                        GetSelectSQLByKVWithArgs(Tables[t], k, v)))

NextSql ==
    \/ SqlRegister
    \/ BuildInsert
    \/ BuildBatchInsert
    \/ BuildLongBatchInsert
    \/ BuildInsertOnDupUpdate
    \/ BuildInsertOnDupKey
    \/ BuildReplace
    \/ BuildUpdate
    \/ BuildDelete
    \/ BuildSelectByKV

SpecSql == InitSql /\ [][NextSql]_vars

-----------------------------------------------------------------------------
(* Properties of the statement builders *)

Placeholders(sql) == CountTok(sql, "?")

\* C6: GetBatchInsertSQLWithArgs given more than BatchInsertMaxSize records
\* returns ErrBatchSizeExceeded and no statement, and a statement it does
\* return carries every record it was given.
C6_OversizeBatchRejected ==
    last.op = "GetBatchInsertSQLWithArgs" =>
        /\ Len(last.arg) > BatchInsertMaxSize
              => (~last.built.ok /\ last.built.err = "ErrBatchSizeExceeded")
        /\ last.built.ok =>
              LET fieldCount == Len(Tables[last.table].Descriptor.fields) IN
              /\ Len(last.built.Args) = Len(last.arg) * fieldCount
              /\ \A i \in DOMAIN last.arg : \A j \in 1..fieldCount :
                    last.built.Args[(i - 1) * fieldCount + j] =
                        SerializeFieldAsString(last.arg[i],
                            Tables[last.table].Descriptor.fields[j]).val

\* a batch one over the limit was rejected
C6_Witness ==
    /\ last.op = "GetBatchInsertSQLWithArgs"
    /\ Len(last.arg) = BatchInsertMaxSize + 1
    /\ last.built.err = "ErrBatchSizeExceeded"

\* a batch of exactly the limit was built
C6_WitnessFull ==
    /\ last.op = "GetBatchInsertSQLWithArgs"
    /\ Len(last.arg) = BatchInsertMaxSize
    /\ last.built.ok

\* C7: in every SqlWithArgs a builder returns, the number of ? placeholders
\* in Sql equals the length of Args.
C7_PlaceholdersMatchArgs ==
    last.built.ok => Placeholders(last.built.Sql) = Len(last.built.Args)

-----------------------------------------------------------------------------
(* Batch insert *)

\* the end of the chunk that starts at input offset i
ChunkEnd_Short(i, n) == Min(i + BatchInsertMaxSize - 1, n)
ChunkEnd(i, n) == Min(i + BatchInsertMaxSize, n)

\* BatchInsert's return when Exec of a chunk's statement fails
ExecFailed_Swallowed(d, stmts, q) ==
    [err |-> Nil, stmts |-> Append(stmts, Sent("exec", q, FALSE)), db |-> d]
ExecFailed(d, stmts, q) ==
    [err |-> "db", stmts |-> Append(stmts, Sent("exec", q, FALSE)), db |-> d]

\* the chunk loop of PbMysqlDB.BatchInsert from input offset i on, against
\* database d; execFails is the number (from 1) of the chunk whose Exec the
\* database fails, 0 for none
RECURSIVE BatchInsertLoop(_, _, _, _, _)
BatchInsertLoop(messages, i, d, stmts, execFails) ==
    IF i >= Len(messages) THEN [err |-> Nil, stmts |-> stmts, db |-> d]
    ELSE
      LET end == ChunkEnd(i, Len(messages))
          batch == SubSeq(messages, i + 1, end)
          tableName == GetTableName(batch[1].desc)
      IN IF tableName \notin DOMAIN Tables
         THEN [err |-> "ErrTableNotFound", stmts |-> stmts, db |-> d]
         ELSE
           LET q == GetBatchInsertSQLWithArgs(Tables[tableName], batch) IN
           IF ~q.ok THEN [err |-> q.err, stmts |-> stmts, db |-> d]
           ELSE
             LET r == DbExec(d, q.Sql, q.Args) IN
             IF ~r.ok \/ execFails = (i \div BatchInsertMaxSize) + 1
             THEN ExecFailed(d, stmts, q)
             ELSE BatchInsertLoop(messages, i + BatchInsertMaxSize, DbAfter(d, r),
                                  Append(stmts, Sent("exec", q, TRUE)), execFails)

\* PbMysqlDB.BatchInsert
BatchInsert(messages, execFails) ==
    IF Len(messages) = 0
    THEN Unchanged([Call("BatchInsert", "", "no messages to insert", <<>>)
                       EXCEPT !.arg = messages])
    ELSE LET out == BatchInsertLoop(messages, 0, db, <<>>, execFails) IN
         Return([Call("BatchInsert", GetTableName(messages[1].desc), out.err, out.stmts)
                    EXCEPT !.arg = messages],
                Tables, tableExistsCache, out.db)

-----------------------------------------------------------------------------
(* Batch workload: registered types whose tables exist, batches around the
   chunk size *)

\* the table CREATE TABLE makes for the type
Created(desc, opts) ==
    DbCreateTable(NoTable, GetCreateTableSQL(MessageTableInit(NewMessageTable(desc, opts))))

\* the record with the given id
Numbered(desc, id) == [Message(desc, {"id"}) EXCEPT !.val["id"] = id]

BatchTypes == {Descriptor(1), Descriptor(MaxFields)}

BatchLens ==
    {0, 1, BatchInsertMaxSize, BatchInsertMaxSize + 1,
     BatchInsertMaxSize + BatchInsertMaxSize \div 2, 2 * BatchInsertMaxSize, MaxBatch}

\* positions of a record of another type within a batch of a chunk and a half
OddPositions == {2, BatchInsertMaxSize + 1, BatchInsertMaxSize + 2}

BatchInputs(desc) ==
    {[i \in 1..n |-> Numbered(desc, i)] : n \in BatchLens}
    \cup {[i \in 1..(BatchInsertMaxSize + BatchInsertMaxSize \div 2) |->
             IF i = p THEN Numbered(OddDescriptor, i) ELSE Numbered(desc, i)]
          : p \in OddPositions}

InitBatch ==
    /\ Tables = EmptyMap
    /\ tableExistsCache = EmptyMap
    /\ db = [t \in {GetTableName(d) : d \in BatchTypes} |->
               Created(CHOOSE d \in BatchTypes : GetTableName(d) = t, NoOptions)]
    /\ last = NoCall
    /\ running = EmptyMap
    /\ saved = EmptyMap

BatchRegister ==
    \E d \in BatchTypes :
        /\ Tables = EmptyMap
        /\ RegisterTable(d, NoOptions)

\* MaxRows bounds the rows a table holds when a batch is inserted into it;
\* the caller stops at the first error, and the chunk whose Exec fails is
\* one the batch has
BatchInsertCall ==
    \E t \in DOMAIN Tables : \E msgs \in BatchInputs(Tables[t].Descriptor) :
        /\ last.err = Nil
        /\ Len(db[t].rows) < MaxRows
        /\ \E execFails \in 0..Ceil(Len(msgs), BatchInsertMaxSize) :
              BatchInsert(msgs, execFails)

NextBatch == BatchRegister \/ BatchInsertCall

SpecBatch == InitBatch /\ [][NextBatch]_vars

-----------------------------------------------------------------------------
(* Single-record writes *)

\* what a write returns, the statements it sent, and the database after it
Written(err, stmts, d) == [err |-> err, stmts |-> stmts, db |-> d]

\* DB.Exec of a built statement, failed by the database or by the statement
Executed(q, execFails) ==
    LET r == DbExec(db, q.Sql, q.Args) IN
    IF execFails \/ ~r.ok
    THEN Written("db", <<Sent("exec", q, FALSE)>>, db)
    ELSE Written(Nil, <<Sent("exec", q, TRUE)>>, DbAfter(db, r))

\* PbMysqlDB.Insert
Insert(message, execFails) ==
    LET tableName == GetTableName(message.desc) IN
    IF tableName \notin DOMAIN Tables THEN Written("ErrTableNotFound", <<>>, db)
    ELSE LET q == GetInsertSQLWithArgs(Tables[tableName], message) IN
         IF ~q.ok THEN Written(q.err, <<>>, db)
         ELSE Executed(q, execFails)

\* PbMysqlDB.Save
Save(message, execFails) ==
    LET tableName == GetTableName(message.desc) IN
    IF tableName \notin DOMAIN Tables THEN Written("ErrTableNotFound", <<>>, db)
    ELSE LET q == GetReplaceSQLWithArgs(Tables[tableName], message) IN
         IF ~q.ok THEN Written(q.err, <<>>, db)
         ELSE Executed(q, execFails)

\* PbMysqlDB.Delete
Delete(message, execFails) ==
    LET tableName == GetTableName(message.desc) IN
    IF tableName \notin DOMAIN Tables THEN Written("ErrTableNotFound", <<>>, db)
    ELSE LET q == GetDeleteSQLWithArgs(Tables[tableName], message) IN
         IF ~q.ok THEN Written(q.err, <<>>, db)
         ELSE Executed(q, execFails)

\* PbMysqlDB.Update
Update(message, execFails) ==
    LET tableName == GetTableName(message.desc) IN
    IF tableName \notin DOMAIN Tables THEN Written("ErrTableNotFound", <<>>, db)
    ELSE LET q == GetUpdateSQLWithArgs(Tables[tableName], message) IN
         IF ~q.ok THEN Written(q.err, <<>>, db)
         ELSE Executed(q, execFails)

-----------------------------------------------------------------------------
(* Reads *)

\* what a read returns, the statements it sent, and the caller's record(s)
\* after it
Outcome(err, stmts, dest) == [err |-> err, stmts |-> stmts, dest |-> dest]

\* the ways the database fails a read: the query, the scan of the first row,
\* or the iteration, broken off before the first row or after it
ReadFailures == {"none", "query", "scan", "rows0", "rows1"}

\* the rows rows.Next delivers
Delivered(rows, fails) ==
    CASE fails = "rows0" -> <<>>
      [] fails = "rows1" -> SubSeq(rows, 1, Min(1, Len(rows)))
      [] OTHER           -> rows

\* rows.Err() after the loop
RowsErr(fails) == IF fails \in {"rows0", "rows1"} THEN "db" ELSE Nil

\* the found-flag loop of a single-row read and the checks after it
ReadOne_FirstWins(message, rows, fails) ==
    LET got == Delivered(rows, fails) IN
    IF got = <<>>
    THEN [msg |-> message,
          err |-> IF RowsErr(fails) # Nil THEN RowsErr(fails) ELSE "ErrNoRowsFound"]
    ELSE IF fails = "scan" THEN [msg |-> message, err |-> "db"]
    ELSE LET p == ParseFromString(message, got[1]) IN
         IF p.err # Nil THEN p
         ELSE [msg |-> p.msg, err |-> RowsErr(fails)]
ReadOne(message, rows, fails) ==
    LET got == Delivered(rows, fails) IN
    IF got = <<>>
    THEN [msg |-> message,
          err |-> IF RowsErr(fails) # Nil THEN RowsErr(fails) ELSE "ErrNoRowsFound"]
    ELSE IF fails = "scan" THEN [msg |-> message, err |-> "db"]
    ELSE LET p == ParseFromString(message, got[1]) IN
         IF p.err # Nil THEN p
         ELSE IF Len(got) > 1 THEN [msg |-> p.msg, err |-> "ErrMultipleRowsFound"]
         ELSE [msg |-> p.msg, err |-> RowsErr(fails)]

\* DB.Query of a statement, failed by the database or by the statement
Queried(q, fails) ==
    LET r == DbQuery(db, q.Sql, q.Args) IN
    IF fails = "query" THEN [ok |-> FALSE, sets |-> <<>>] ELSE r

\* PbMysqlDB.FindOneByWhereWithArgs
FindOneByWhereWithArgs(message, whereClause, whereArgs, fails) ==
    LET tableName == GetTableName(message.desc) IN
    IF tableName \notin DOMAIN Tables THEN Outcome("ErrTableNotFound", <<>>, message)
    ELSE
      LET q == GetSelectSQLByWhereWithArgs(Tables[tableName], whereClause, whereArgs)
          r == Queried(q, fails)
      IN IF ~r.ok THEN Outcome("db", <<Sent("query", q, FALSE)>>, message)
         ELSE LET one == ReadOne(message, r.sets[1], fails) IN
              Outcome(one.err, <<Sent("query", q, TRUE)>>, one.msg)

\* PbMysqlDB.FindOneByKV
FindOneByKV(message, whereKey, whereVal, fails) ==
    FindOneByWhereWithArgs(message, <<whereKey, "=", "?">>, <<whereVal>>, fails)

\* WHERE 1=1 in place of an empty condition
WhereSQL(whereClause) ==
    IF whereClause = <<>> THEN <<"WHERE", "1=1">> ELSE <<"WHERE">> \o whereClause

\* PbMysqlDB.FindOneByWhereClause
FindOneByWhereClause(message, whereClause, fails) ==
    LET tableName == GetTableName(message.desc) IN
    IF tableName \notin DOMAIN Tables THEN Outcome("ErrTableNotFound", <<>>, message)
    ELSE
      LET q == SqlWithArgs(GetSelectSQL(Tables[tableName], FALSE)
                              \o WhereSQL(whereClause) \o <<";">>, <<>>)
          r == Queried(q, fails)
      IN IF ~r.ok THEN Outcome("db", <<Sent("query", q, FALSE)>>, message)
         ELSE LET one == ReadOne(message, r.sets[1], fails) IN
              Outcome(one.err, <<Sent("query", q, TRUE)>>, one.msg)

\* a MultiQuery
MultiQuery(message, whereClause, whereArgs) ==
    [Message |-> message, WhereClause |-> whereClause, WhereArgs |-> whereArgs]

\* the result-set loop of FindMultiByWhereClauses from query idx on: the
\* callers' records as far as they were filled
RECURSIVE ReadEach(_, _, _, _)
ReadEach(queries, sets, idx, fails) ==
    IF idx > Len(queries) THEN [err |-> Nil, dest |-> <<>>]
    ELSE LET one == ReadOne(queries[idx].Message, sets[idx], fails) IN
         IF one.err # Nil
         THEN [err |-> one.err,
               dest |-> <<one.msg>> \o [k \in 1..(Len(queries) - idx) |->
                                          queries[idx + k].Message]]
         ELSE LET rest == ReadEach(queries, sets, idx + 1, fails) IN
              [err |-> rest.err, dest |-> <<one.msg>> \o rest.dest]

\* PbMysqlDB.FindMultiByWhereClauses
FindMultiByWhereClauses(queries, fails) ==
    LET messages == [i \in DOMAIN queries |-> queries[i].Message] IN
    IF Len(queries) = 0 THEN Outcome("no queries provided", <<>>, messages)
    ELSE IF \E i \in DOMAIN queries : GetTableName(queries[i].Message.desc) \notin DOMAIN Tables
    THEN Outcome("ErrTableNotFound", <<>>, messages)
    ELSE
      LET sqlParts == [i \in DOMAIN queries |->
                         GetSelectSQL(Tables[GetTableName(queries[i].Message.desc)], FALSE)
                            \o <<"WHERE">> \o queries[i].WhereClause]
          allArgs == Flatten([i \in DOMAIN queries |-> queries[i].WhereArgs])
          q == SqlWithArgs(Join(sqlParts, <<";">>), allArgs)
          r == Queried(q, fails)
      IN IF ~r.ok THEN Outcome("db", <<Sent("query", q, FALSE)>>, messages)
         ELSE LET each == ReadEach(queries, r.sets, 1, fails) IN
              Outcome(each.err, <<Sent("query", q, TRUE)>>, each.dest)

\* the message types of the model, by full name
KnownTypes ==
    {Descriptor(n) : n \in 0..MaxFields} \cup {PlainDescriptor(n) : n \in 0..MaxFields}
        \cup {OddDescriptor}

TypeNamed(fullName) == CHOOSE d \in KnownTypes : d.fullName = fullName

\* the scan of the destination's fields for its repeated field
ListFieldOf_First(desc) ==
    LET lists == {i \in DOMAIN desc.fields : IsList(desc.fields[i])} IN
    IF lists = {} THEN [err |-> "ErrNoRepeatedField", field |-> FD("", "")]
    ELSE [err |-> Nil,
          field |-> desc.fields[CHOOSE i \in lists : \A j \in lists : i <= j]]
ListFieldOf(desc) ==
    LET lists == {i \in DOMAIN desc.fields : IsList(desc.fields[i])} IN
    IF Cardinality(lists) > 1 THEN [err |-> "ErrMultipleRepeated", field |-> FD("", "")]
    ELSE IF lists = {} THEN [err |-> "ErrNoRepeatedField", field |-> FD("", "")]
    ELSE [err |-> Nil, field |-> desc.fields[CHOOSE i \in lists : TRUE]]

\* listValue.Truncate(0) and the appends that follow
SetList(message, listField, elems) ==
    [message EXCEPT
        !.val[listField.name] = elems,
        !.has = IF elems = <<>> THEN message.has \ {listField.name}
                ELSE message.has \cup {listField.name}]

\* the append loop of a list read: the elements appended, and the error
\* that stopped the loop
RECURSIVE ReadAll(_, _, _)
ReadAll(elemDesc, rows, k) ==
    IF k > Len(rows) THEN [elems |-> <<>>, err |-> Nil]
    ELSE LET p == ParseFromString(Message(elemDesc, {}), rows[k]) IN
         IF p.err # Nil THEN [elems |-> <<>>, err |-> p.err]
         ELSE LET rest == ReadAll(elemDesc, rows, k + 1) IN
              [elems |-> <<p.msg>> \o rest.elems, err |-> rest.err]

\* a list read from the query on: the list is emptied once the query has
\* succeeded, then filled row by row
QueryInto(message, listField, q, fails) ==
    LET r == Queried(q, fails) IN
    IF ~r.ok THEN Outcome("db", <<Sent("query", q, FALSE)>>, message)
    ELSE
      LET sent == <<Sent("query", q, TRUE)>>
          got == Delivered(r.sets[1], fails)
      IN IF got # <<>> /\ fails = "scan"
         THEN Outcome("db", sent, SetList(message, listField, <<>>))
         ELSE LET all == ReadAll(TypeNamed(listField.msg), got, 1) IN
              Outcome(IF all.err # Nil THEN all.err ELSE RowsErr(fails),
                      sent, SetList(message, listField, all.elems))

\* the table of a repeated field's element type: the type's name without
\* its package; a repeated scalar has no element type
ElementTable(listField) ==
    IF listField.msg = "" THEN "" ELSE TypeNamed(listField.msg).name

\* PbMysqlDB.FindAllByWhereWithArgs
FindAllByWhereWithArgs(message, whereClause, whereArgs, fails) ==
    LET lf == ListFieldOf(message.desc)
        tableName == ElementTable(lf.field)
    IN IF lf.err # Nil THEN Outcome(lf.err, <<>>, message)
       ELSE IF lf.field.msg = "" THEN Outcome("panic", <<>>, message)
       ELSE IF tableName \notin DOMAIN Tables THEN Outcome("ErrTableNotFound", <<>>, message)
       ELSE QueryInto(message, lf.field,
                      GetSelectSQLByWhereWithArgs(Tables[tableName], whereClause, whereArgs),
                      fails)

\* PbMysqlDB.FindAll
FindAll(message, fails) == FindAllByWhereWithArgs(message, <<"1=1">>, <<>>, fails)

\* PbMysqlDB.FindAllByWhereClause
FindAllByWhereClause(message, whereClause, fails) ==
    LET lf == ListFieldOf(message.desc)
        tableName == ElementTable(lf.field)
    IN IF lf.err # Nil THEN Outcome(lf.err, <<>>, message)
       ELSE IF lf.field.msg = "" THEN Outcome("panic", <<>>, message)
       ELSE IF tableName \notin DOMAIN Tables THEN Outcome("ErrTableNotFound", <<>>, message)
       ELSE QueryInto(message, lf.field,
                      SqlWithArgs(GetSelectSQL(Tables[tableName], FALSE)
                                     \o WhereSQL(whereClause) \o <<";">>, <<>>),
                      fails)

\* PbMysqlDB.FindMultiByWhereWithArgs
FindMultiByWhereWithArgs(message, whereClause, whereArgs, fails) ==
    LET lf == ListFieldOf(message.desc)
        tableName == ElementTable(lf.field)
    IN IF lf.err # Nil THEN Outcome(lf.err, <<>>, message)
       ELSE IF lf.field.msg = "" THEN Outcome("panic", <<>>, message)
       ELSE IF tableName \notin DOMAIN Tables THEN Outcome("ErrTableNotFound", <<>>, message)
       ELSE QueryInto(message, lf.field,
                      GetSelectSQLByWhereWithArgs(Tables[tableName], whereClause, whereArgs),
                      fails)

\* PbMysqlDB.FindMultiByKV
FindMultiByKV(message, whereKey, whereVal, fails) ==
    FindMultiByWhereWithArgs(message, <<whereKey, "=", "?">>, <<whereVal>>, fails)

\* PbMysqlDB.FindMultiByWhereClause
FindMultiByWhereClause(message, whereClause, fails) ==
    LET lf == ListFieldOf(message.desc)
        tableName == ElementTable(lf.field)
    IN IF lf.err # Nil THEN Outcome(lf.err, <<>>, message)
       ELSE IF lf.field.msg = "" THEN Outcome("panic", <<>>, message)
       ELSE IF tableName \notin DOMAIN Tables THEN Outcome("ErrTableNotFound", <<>>, message)
       ELSE QueryInto(message, lf.field,
                      SqlWithArgs(GetSelectSQL(Tables[tableName], FALSE)
                                     \o WhereSQL(whereClause) \o <<";">>, <<>>),
                      fails)

-----------------------------------------------------------------------------
(* Batch insert properties *)

\* the ids of the records at input positions [from, to), as the codec writes them
IdsAt(messages, from, to) ==
    [k \in 1..(IF to > from THEN to - from ELSE 0) |-> ToString(messages[from + k].val["id"])]

\* the ids a statement's arguments carry, one per value group
CarriedIds(stmt, fieldCount) ==
    [k \in 1..(Len(stmt.args) \div fieldCount) |-> stmt.args[(k - 1) * fieldCount + 1]]

RowIds(rows) == [k \in DOMAIN rows |-> rows[k]["id"]]

IsBatchInsert == last.op = "BatchInsert" /\ Len(last.arg) > 0

\* C4: statement i of a BatchInsert is an INSERT that carries the records at
\* input positions [1000*i, min(1000*(i+1), n)) in input order, and a
\* BatchInsert of n > 0 records that returns nil has issued exactly
\* ceil(n / 1000) statements.
C4_BatchInsertChunks ==
    IsBatchInsert =>
        LET n == Len(last.arg)
            fieldCount == Len(Tables[last.table].Descriptor.fields)
        IN /\ \A i \in 0..(Len(last.stmts) - 1) :
                 LET stmt == last.stmts[i + 1] IN
                 /\ stmt.sql[1] = "INSERT INTO"
                 /\ Len(stmt.args) % fieldCount = 0
                 /\ CarriedIds(stmt, fieldCount) =
                       IdsAt(last.arg, 1000 * i, Min(1000 * (i + 1), n))
           /\ last.err = Nil =>
                 /\ Len(last.stmts) = Ceil(n, 1000)
                 /\ \A i \in DOMAIN last.stmts : last.stmts[i].ok

\* 1500 records went out as two statements of 1000 and 500 rows
C4_Witness ==
    /\ IsBatchInsert
    /\ last.err = Nil
    /\ Len(last.arg) = 1500
    /\ Len(last.stmts) = 2
    /\ Len(CarriedIds(last.stmts[1], Len(Tables[last.table].Descriptor.fields))) = 1000
    /\ Len(CarriedIds(last.stmts[2], Len(Tables[last.table].Descriptor.fields))) = 500

\* the chunks of the last BatchInsert whose statement was executed
ChunksDone == Cardinality({i \in DOMAIN last.stmts : last.stmts[i].ok})

\* C5: when chunk k of a BatchInsert is the first whose statement is not
\* built or not executed, BatchInsert returns an error, has issued no
\* statement after chunk k's, and the table holds the rows it held before
\* followed by the records of the chunks before k.
C5_BatchInsertStopsAtFailure ==
    (IsBatchInsert /\ ChunksDone < Ceil(Len(last.arg), BatchInsertMaxSize)) =>
        /\ last.err # Nil
        /\ Len(last.stmts) <= ChunksDone + 1
        /\ \A i \in 1..ChunksDone : last.stmts[i].ok
        /\ RowIds(db[last.table].rows) =
              RowIds(last.liveBefore.rows)
                 \o IdsAt(last.arg, 0, Min(ChunksDone * BatchInsertMaxSize, Len(last.arg)))

\* the second chunk's Exec failed after the first chunk was inserted
C5_Witness ==
    /\ IsBatchInsert
    /\ last.err = "db"
    /\ Len(last.stmts) = 2
    /\ last.stmts[1].ok /\ ~last.stmts[2].ok
    /\ Len(last.arg) > 2 * BatchInsertMaxSize
    /\ Len(db[last.table].rows) = Len(last.liveBefore.rows) + BatchInsertMaxSize

\* the second chunk's statement could not be built after the first chunk
\* was inserted
C5_WitnessBuild ==
    /\ IsBatchInsert
    /\ last.err = "messages have different descriptors"
    /\ Len(last.stmts) = 1
    /\ Len(db[last.table].rows) = Len(last.liveBefore.rows) + BatchInsertMaxSize

-----------------------------------------------------------------------------
(* Read workload: one registered type whose table holds up to MaxRows rows *)

FindTypes == {Descriptor(MaxFields), PlainDescriptor(MaxFields)}

\* the row the builders' INSERT stores for a record
RowOf(message) ==
    [c \in FieldNames(message.desc) |->
        SerializeFieldAsString(message,
            CHOOSE fd \in Range(message.desc.fields) : fd.name = c).val]

\* the rows a table holds are a prefix of these
StoredRecords(desc) ==
    <<Message(desc, FieldNames(desc)), Message(desc, {"id"}),
      Message(desc, {}), Message(desc, {"name"}), Message(desc, {"id", "name"})>>

\* conditions col = val, as (col, val) pairs
Conditions ==
    {<<>>, <<<<"id", "7">>>>, <<<<"id", "0">>>>, <<<<"name", "a">>>>,
     <<<<"id", "7">>, <<"name", "a">>>>, <<<<"id", "9">>>>, <<<<"missing", "1">>>>}

\* the condition text, with placeholders or with the values written in
WhereOf(conds, placeholders) ==
    Join([i \in DOMAIN conds |->
            <<conds[i][1], "=", IF placeholders THEN "?" ELSE conds[i][2]>>], <<"AND">>)

ArgsOf(conds) == [i \in DOMAIN conds |-> conds[i][2]]

\* destinations of list reads: messages with no, one, two and three
\* repeated fields, a map, a repeated scalar
ListTypes(elem) ==
    {[fullName |-> "pkg.None", name |-> "None", fields |-> <<FD("id", "int32")>>],
     [fullName |-> "pkg.Map", name |-> "Map", fields |-> <<MapOf("by_id")>>],
     [fullName |-> "pkg.One", name |-> "One",
      fields |-> <<FD("id", "int32"), ListOf("items", "message", elem.fullName)>>],
     [fullName |-> "pkg.Two", name |-> "Two",
      fields |-> <<ListOf("items", "message", elem.fullName),
                   ListOf("more", "message", elem.fullName)>>],
     [fullName |-> "pkg.Three", name |-> "Three",
      fields |-> <<ListOf("nums", "int32", ""), ListOf("items", "message", elem.fullName),
                   ListOf("more", "message", elem.fullName)>>],
     [fullName |-> "pkg.Nums", name |-> "Nums",
      fields |-> <<ListOf("nums", "int32", "")>>]}

\* a destination whose repeated fields already hold the given elements
ListMessage(desc, elems) ==
    [desc |-> desc,
     has |-> {desc.fields[i].name : i \in {j \in DOMAIN desc.fields :
                                             IsList(desc.fields[j]) /\ elems # <<>>}},
     val |-> [n \in FieldNames(desc) |->
                LET fd == CHOOSE f \in Range(desc.fields) : f.name = n
                IN IF IsList(fd) THEN elems ELSE 0]]

ListDestinations(elem) ==
    {ListMessage(w, <<Message(elem, {"name"})>>) : w \in ListTypes(elem)}

InitFind ==
    /\ Tables = EmptyMap
    /\ tableExistsCache = EmptyMap
    /\ \E k \in 0..MaxRows :
          db = [t \in {GetTableName(d) : d \in FindTypes} |->
                  LET d == CHOOSE x \in FindTypes : GetTableName(x) = t
                      made == Created(d, NoOptions)
                  IN [made EXCEPT !.rows =
                        [i \in 1..k |-> RowOf(StoredRecords(d)[i])]]]
    /\ last = NoCall
    /\ running = EmptyMap
    /\ saved = EmptyMap

FindRegister ==
    \E d \in FindTypes :
        /\ Tables = EmptyMap
        /\ RegisterTable(d, NoOptions)

\* the record of a read: its inputs, and the caller's record(s) afterwards;
\* the caller stops at the first error
Read(op, table, input, out) ==
    /\ last.err = Nil
    /\ Unchanged([Call(op, table, out.err, out.stmts) EXCEPT !.arg = input, !.dest = out.dest])

ReadInput(message, conds, fails) == [message |-> message, conds |-> conds, fails |-> fails]

CallFindOneByKV ==
    \E t \in DOMAIN Tables, c \in {x \in Conditions : Len(x) = 1}, fails \in ReadFailures :
        LET m == Message(Tables[t].Descriptor, {"name"}) IN
        Read("FindOneByKV", t, ReadInput(m, c, fails),
             FindOneByKV(m, c[1][1], c[1][2], fails))

CallFindOneByWhereWithArgs ==
    \E t \in DOMAIN Tables, c \in Conditions \ {<<>>}, fails \in ReadFailures :
        LET m == Message(Tables[t].Descriptor, {"name"}) IN
        Read("FindOneByWhereWithArgs", t, ReadInput(m, c, fails),
             FindOneByWhereWithArgs(m, WhereOf(c, TRUE), ArgsOf(c), fails))

CallFindOneByWhereClause ==
    \E t \in DOMAIN Tables, c \in Conditions, fails \in ReadFailures :
        LET m == Message(Tables[t].Descriptor, {"name"}) IN
        Read("FindOneByWhereClause", t, ReadInput(m, c, fails),
             FindOneByWhereClause(m, WhereOf(c, FALSE), fails))

CallFindMultiByWhereClauses ==
    \E t \in DOMAIN Tables, fails \in ReadFailures :
    \E cs \in {<<>>} \cup {<<c>> : c \in Conditions \ {<<>>}}
                \cup {<<c1, c2>> : c1 \in {<<<<"name", "a">>>>},
                                   c2 \in Conditions \ {<<>>}} :
        LET m == Message(Tables[t].Descriptor, {"name"})
            queries == [i \in DOMAIN cs |-> MultiQuery(m, WhereOf(cs[i], TRUE), ArgsOf(cs[i]))]
        IN Read("FindMultiByWhereClauses", t, ReadInput(m, cs, fails),
                FindMultiByWhereClauses(queries, fails))

\* list reads into destinations whose element type is the registered type
CallFindAll ==
    \E e \in {Tables[t].Descriptor : t \in DOMAIN Tables}, fails \in ReadFailures : \E m \in ListDestinations(e) :
        Read("FindAll", GetTableName(e), ReadInput(m, <<>>, fails), FindAll(m, fails))

CallFindAllByWhereWithArgs ==
    \E e \in {Tables[t].Descriptor : t \in DOMAIN Tables}, fails \in ReadFailures, c \in {<<<<"id", "7">>>>, <<<<"missing", "1">>>>} :
    \E m \in ListDestinations(e) :
        Read("FindAllByWhereWithArgs", GetTableName(e), ReadInput(m, c, fails),
             FindAllByWhereWithArgs(m, WhereOf(c, TRUE), ArgsOf(c), fails))

CallFindAllByWhereClause ==
    \E e \in {Tables[t].Descriptor : t \in DOMAIN Tables}, fails \in ReadFailures, c \in {<<>>, <<<<"id", "7">>>>} :
    \E m \in ListDestinations(e) :
        Read("FindAllByWhereClause", GetTableName(e), ReadInput(m, c, fails),
             FindAllByWhereClause(m, WhereOf(c, FALSE), fails))

CallFindMultiByKV ==
    \E e \in {Tables[t].Descriptor : t \in DOMAIN Tables}, fails \in ReadFailures, c \in {<<<<"name", "a">>>>} :
    \E m \in ListDestinations(e) :
        Read("FindMultiByKV", GetTableName(e), ReadInput(m, c, fails),
             FindMultiByKV(m, c[1][1], c[1][2], fails))

CallFindMultiByWhereWithArgs ==
    \E e \in {Tables[t].Descriptor : t \in DOMAIN Tables}, fails \in ReadFailures, c \in {<<<<"id", "7">>, <<"name", "a">>>>} :
    \E m \in ListDestinations(e) :
        Read("FindMultiByWhereWithArgs", GetTableName(e), ReadInput(m, c, fails),
             FindMultiByWhereWithArgs(m, WhereOf(c, TRUE), ArgsOf(c), fails))

CallFindMultiByWhereClause ==
    \E e \in {Tables[t].Descriptor : t \in DOMAIN Tables}, fails \in ReadFailures, c \in {<<>>, <<<<"id", "0">>>>} :
    \E m \in ListDestinations(e) :
        Read("FindMultiByWhereClause", GetTableName(e), ReadInput(m, c, fails),
             FindMultiByWhereClause(m, WhereOf(c, FALSE), fails))

NextFind ==
    \/ FindRegister
    \/ CallFindOneByKV
    \/ CallFindOneByWhereWithArgs
    \/ CallFindOneByWhereClause
    \/ CallFindMultiByWhereClauses
    \/ CallFindAll
    \/ CallFindAllByWhereWithArgs
    \/ CallFindAllByWhereClause
    \/ CallFindMultiByKV
    \/ CallFindMultiByWhereWithArgs
    \/ CallFindMultiByWhereClause

SpecFind == InitFind /\ [][NextFind]_vars

-----------------------------------------------------------------------------
(* Read properties *)

ListReads ==
    {"FindAll", "FindAllByWhereWithArgs", "FindAllByWhereClause",
     "FindMultiByWhereWithArgs", "FindMultiByWhereClause"}

RepeatedFields(desc) == {i \in DOMAIN desc.fields : desc.fields[i].card = "list"}

\* C8: a list read into a destination with no repeated field returns
\* ErrNoRepeatedField, into one with more than one it returns
\* ErrMultipleRepeated, and in both cases no query was sent and the
\* destination is as it was.
C8_RepeatedFieldChecked ==
    last.op \in ListReads =>
        LET n == Cardinality(RepeatedFields(last.arg.message.desc)) IN
        /\ n = 0 => last.err = "ErrNoRepeatedField"
        /\ n > 1 => last.err = "ErrMultipleRepeated"
        /\ n # 1 => (last.stmts = <<>> /\ last.dest = last.arg.message)

\* FindAll into a destination with two filled repeated fields was rejected
C8_Witness ==
    /\ last.op = "FindAll"
    /\ Cardinality(RepeatedFields(last.arg.message.desc)) = 2
    /\ last.err = "ErrMultipleRepeated"
    /\ last.arg.message.val["items"] # <<>>
    /\ last.table \in DOMAIN Tables

\* a list read into a destination without a repeated field was rejected
C8_WitnessNone ==
    /\ last.op = "FindMultiByWhereClause"
    /\ RepeatedFields(last.arg.message.desc) = {}
    /\ last.err = "ErrNoRepeatedField"

\* a list read into a destination with one repeated field replaced its elements
C8_WitnessOne ==
    /\ last.op \in ListReads
    /\ Cardinality(RepeatedFields(last.arg.message.desc)) = 1
    /\ last.err = Nil
    /\ Len(last.dest.val["items"]) > 1

SingleReads == {"FindOneByKV", "FindOneByWhereWithArgs", "FindOneByWhereClause"}

\* the conditions name columns of the table
ColumnsKnown(conds) ==
    \A i \in DOMAIN conds : conds[i][1] \in DOMAIN last.liveBefore.cols

\* the rows of the table that satisfy the conditions
MatchCount(conds) ==
    Cardinality({k \in DOMAIN last.liveBefore.rows :
                    \A i \in DOMAIN conds :
                        last.liveBefore.rows[k][conds[i][1]] = conds[i][2]})

\* what a single-row read returns for a number of matching rows
ErrFor(n) ==
    IF n = 0 THEN "ErrNoRowsFound" ELSE IF n > 1 THEN "ErrMultipleRowsFound" ELSE Nil

\* C9: a single-row read returns nil only if exactly one row matched, and
\* when the database fails nothing it returns ErrNoRowsFound for no matching
\* row and ErrMultipleRowsFound for more than one; FindMultiByWhereClauses
\* returns nil only if every query matched exactly one row, and otherwise
\* what its first query that did not calls for.
C9_SingleRowReads ==
    /\ (last.op \in SingleReads /\ ColumnsKnown(last.arg.conds)) =>
          /\ last.err = Nil => MatchCount(last.arg.conds) = 1
          /\ last.arg.fails = "none" => last.err = ErrFor(MatchCount(last.arg.conds))
    /\ (last.op = "FindMultiByWhereClauses" /\ Len(last.arg.conds) > 0
          /\ \A i \in DOMAIN last.arg.conds : ColumnsKnown(last.arg.conds[i])) =>
          LET cs == last.arg.conds
              bad == {i \in DOMAIN cs : MatchCount(cs[i]) # 1}
          IN /\ last.err = Nil => bad = {}
             /\ (last.arg.fails = "none" /\ bad # {}) =>
                   last.err = ErrFor(MatchCount(cs[CHOOSE i \in bad : \A j \in bad : i <= j]))
             /\ (last.arg.fails = "none" /\ bad = {}) => last.err = Nil

\* a single-row read that matched several rows returned ErrMultipleRowsFound
C9_Witness ==
    /\ last.op \in SingleReads
    /\ ColumnsKnown(last.arg.conds)
    /\ MatchCount(last.arg.conds) > 1
    /\ last.err = "ErrMultipleRowsFound"

\* a single-row read that matched no row returned ErrNoRowsFound
C9_WitnessNone ==
    /\ last.op \in SingleReads
    /\ ColumnsKnown(last.arg.conds)
    /\ Len(last.liveBefore.rows) > 0
    /\ MatchCount(last.arg.conds) = 0
    /\ last.err = "ErrNoRowsFound"

\* a single-row read that matched one row returned nil and filled the record
C9_WitnessOne ==
    /\ last.op \in SingleReads
    /\ MatchCount(last.arg.conds) = 1
    /\ last.err = Nil
    /\ last.dest # last.arg.message

\* the second query of a FindMultiByWhereClauses matched no row
C9_WitnessMulti ==
    /\ last.op = "FindMultiByWhereClauses"
    /\ Len(last.arg.conds) = 2
    /\ \A i \in DOMAIN last.arg.conds : ColumnsKnown(last.arg.conds[i])
    /\ MatchCount(last.arg.conds[1]) = 1
    /\ MatchCount(last.arg.conds[2]) = 0
    /\ last.err = "ErrNoRowsFound"

-----------------------------------------------------------------------------
(* Write workload: one registered type, with or without a primary key, whose
   table holds up to MaxRows rows *)

CrudTypes == {Descriptor(MaxFields)}

CrudOptions ==
    {NoOptions, TableOptions(<<"id">>, NoField, <<>>), TableOptions(<<"id", "name">>, NoField, <<>>)}

\* the records written
CrudRecords(desc) ==
    {Message(desc, {}), Message(desc, {"name"} \cap FieldNames(desc)),
     Message(desc, FieldNames(desc))}

InitCrud ==
    /\ Tables = EmptyMap
    /\ tableExistsCache = EmptyMap
    /\ db = [t \in {GetTableName(d) : d \in CrudTypes} |->
               Created(CHOOSE d \in CrudTypes : GetTableName(d) = t, NoOptions)]
    /\ last = NoCall
    /\ running = EmptyMap
    /\ saved = EmptyMap

CrudRegister ==
    \E d \in CrudTypes, o \in CrudOptions :
        /\ Tables = EmptyMap
        /\ RegisterTable(d, o)

\* the record of a write: its record, and the database afterwards
Write(op, message, out) ==
    Return([Call(op, GetTableName(message.desc), out.err, out.stmts) EXCEPT !.arg = message],
           Tables, tableExistsCache, out.db)

CallInsert ==
    \E t \in DOMAIN Tables, execFails \in BOOLEAN :
    \E m \in CrudRecords(Tables[t].Descriptor) :
        /\ Len(db[t].rows) < MaxRows
        /\ Write("Insert", m, Insert(m, execFails))

CallUpdate ==
    \E t \in DOMAIN Tables, execFails \in BOOLEAN :
    \E m \in CrudRecords(Tables[t].Descriptor) :
        Write("Update", m, Update(m, execFails))

CallDelete ==
    \E t \in DOMAIN Tables, execFails \in BOOLEAN :
    \E m \in CrudRecords(Tables[t].Descriptor) :
        Write("Delete", m, Delete(m, execFails))

CallGetUpdateSQLWithArgs ==
    \E t \in DOMAIN Tables : \E m \in CrudRecords(Tables[t].Descriptor) :
        Unchanged(Built("GetUpdateSQLWithArgs", t, m, GetUpdateSQLWithArgs(Tables[t], m)))

CallGetDeleteSQLWithArgs ==
    \E t \in DOMAIN Tables : \E m \in CrudRecords(Tables[t].Descriptor) :
        Unchanged(Built("GetDeleteSQLWithArgs", t, m, GetDeleteSQLWithArgs(Tables[t], m)))

NextCrud ==
    \/ CrudRegister
    \/ CallInsert
    \/ CallUpdate
    \/ CallDelete
    \/ CallGetUpdateSQLWithArgs
    \/ CallGetDeleteSQLWithArgs

SpecCrud == InitCrud /\ [][NextCrud]_vars

-----------------------------------------------------------------------------
(* Primary key properties *)

NoPrimaryKey ==
    last.table \in DOMAIN Tables /\ Tables[last.table].primaryKey = <<>>

\* C10 as stated: with no primary key registered, building an UPDATE or a
\* DELETE by primary key fails with ErrPrimaryKeyNotFound, and Update and
\* Delete return that error and execute no statement.
C10_PrimaryKeyNotFound ==
    NoPrimaryKey =>
        /\ last.op \in {"GetUpdateSQLWithArgs", "GetDeleteSQLWithArgs"} =>
              (~last.built.ok /\ last.built.err = "ErrPrimaryKeyNotFound")
        /\ last.op \in {"Update", "Delete"} =>
              (last.err = "ErrPrimaryKeyNotFound" /\ last.stmts = <<>>)

\* what building an UPDATE fails with when no primary key is registered
UpdateErr(message) ==
    IF message.has = {} THEN "no fields to update" ELSE "ErrPrimaryKeyNotFound"

\* C10 amended: with no primary key registered, building a DELETE by primary
\* key fails with ErrPrimaryKeyNotFound; building an UPDATE by primary key
\* fails with ErrPrimaryKeyNotFound when the record has a field set and with
\* the usage error "no fields to update" when it has none; Update and Delete
\* return the builder's error, execute no statement and leave the rows as
\* they were.
C10_NoPrimaryKeyNoStatement ==
    NoPrimaryKey =>
        /\ last.op = "GetDeleteSQLWithArgs" =>
              (~last.built.ok /\ last.built.Sql = <<>>
                 /\ last.built.err = "ErrPrimaryKeyNotFound")
        /\ last.op = "GetUpdateSQLWithArgs" =>
              (~last.built.ok /\ last.built.Sql = <<>>
                 /\ last.built.err = UpdateErr(last.arg))
        /\ last.op \in {"Update", "Delete"} =>
              /\ last.err = IF last.op = "Delete" THEN "ErrPrimaryKeyNotFound"
                            ELSE UpdateErr(last.arg)
              /\ last.stmts = <<>>
              /\ db[last.table].rows = last.liveBefore.rows

\* Update of a record with fields set, on a table with rows and no primary
\* key, returned ErrPrimaryKeyNotFound
C10_Witness ==
    /\ NoPrimaryKey
    /\ last.op = "Update"
    /\ last.arg.has # {}
    /\ Len(last.liveBefore.rows) > 0
    /\ last.err = "ErrPrimaryKeyNotFound"

\* Delete on a table with rows and no primary key returned ErrPrimaryKeyNotFound
C10_WitnessDelete ==
    /\ NoPrimaryKey
    /\ last.op = "Delete"
    /\ Len(last.liveBefore.rows) > 0
    /\ last.err = "ErrPrimaryKeyNotFound"

\* with a primary key registered, Delete removed a row
C10_WitnessKeyed ==
    /\ ~NoPrimaryKey
    /\ last.op = "Delete"
    /\ last.err = Nil
    /\ Len(db[last.table].rows) < Len(last.liveBefore.rows)

\* the configured primary-key fields the record has not set
UnsetKeys(m, message) ==
    {i \in DOMAIN m.primaryKey :
        m.primaryKey[i] \in FieldNames(m.Descriptor) /\ m.primaryKey[i] \notin message.has}

\* C11: building an UPDATE or a DELETE by primary key for a record on which
\* a configured primary-key field is not set returns an error and no
\* statement.
C11_UnsetKeyRejected ==
    (/\ last.op \in {"GetUpdateSQLWithArgs", "GetDeleteSQLWithArgs"}
     /\ last.table \in DOMAIN Tables
     /\ UnsetKeys(Tables[last.table], last.arg) # {}) =>
        (~last.built.ok /\ last.built.err # Nil)

-----------------------------------------------------------------------------
\* the entry a registration with these options leaves in a registry that
\* never held the type
FreshEntry(desc, opts) == MessageTableInit(NewMessageTable(desc, opts))

\* C12: after RegisterTable for a type, registered before or not, the
\* registry holds one entry under the type's full name, and its primary key,
\* indexes, unique key, auto-increment field, nullable set, SQL templates
\* and live-column cache are those of a fresh registration with the options
\* of this call.
C12_ReRegistrationReplaces ==
    last.op = "RegisterTable" =>
        /\ last.table \in DOMAIN Tables
        /\ LET m == Tables[last.table]
           IN /\ GetTableName(m.Descriptor) = last.table
              /\ m.primaryKey = last.arg.primaryKey
              /\ m.indexes = last.arg.indexes
              /\ m.uniqueKeys = last.arg.uniqueKeys
              /\ m.autoIncreaseKey = last.arg.autoIncreaseKey
              /\ m.nullableFields = last.arg.nullableFields
              /\ m.cachedColumns = NilColumns
              /\ m = FreshEntry(m.Descriptor, last.arg)

\* a type whose entry had a populated column cache and other options is
\* registered again
C12_Witness ==
    /\ last.op = "RegisterTable"
    /\ last.dest # <<>>
    /\ last.cacheBefore.populated
    /\ last.dest[1].primaryKey # last.arg.primaryKey
    /\ last.dest[1].indexes # last.arg.indexes

-----------------------------------------------------------------------------
\* the message type of the destination's repeated field, "" for a repeated
\* scalar
ElementType(desc) ==
    LET i == CHOOSE j \in RepeatedFields(desc) : TRUE IN desc.fields[i].msg

\* C13: a FindAll-style read into a wrapper whose one repeated field has a
\* registered element type never returns ErrTableNotFound.
C13_ElementTableResolved ==
    (/\ last.op \in {"FindAll", "FindAllByWhereWithArgs", "FindAllByWhereClause"}
     /\ Cardinality(RepeatedFields(last.arg.message.desc)) = 1
     /\ ElementType(last.arg.message.desc) # ""
     /\ GetTableName(TypeNamed(ElementType(last.arg.message.desc))) \in DOMAIN Tables) =>
        last.err # "ErrTableNotFound"

-----------------------------------------------------------------------------
(* Concurrent Save and FindOne: each caller is a goroutine that works on a
   key of its own.  A call takes two steps, the lookup of the compiled table
   in the registry and the rest of the handler around its one database
   call, which the database serialises. *)

MaxCallers == 2

Callers == 1..MaxCallers

ConcType == Descriptor(MaxFields)

ConcOps == {"Save", "FindOneByKV", "FindOneByWhereWithArgs"}

\* the record a caller saves under its key
ConcRecord(k) ==
    [Message(ConcType, IF k % 2 = 0 THEN {"id", "name"} ELSE {"id"})
        EXCEPT !.val["id"] = k]

\* the key as the caller passes it to FindOneByKV
ConcKey(k) == SerializeFieldAsString(ConcRecord(k), FD("id", "int32")).val

\* the accesses to the engine's shared state (the registry map, the
\* compiled table, the caches) a step of Save or FindOne makes
Touches_CacheWrite(op, pc) ==
    CASE pc = "lookup" -> {[loc |-> "Tables", mode |-> "read"]}
      [] pc = "exec"   -> {[loc |-> "MessageTable", mode |-> "read"]} \cup
                          IF op = "Save"
                          THEN {[loc |-> "tableExistsCache", mode |-> "write"]}
                          ELSE {}
Touches(op, pc) ==
    CASE pc = "lookup" -> {[loc |-> "Tables", mode |-> "read"]}
      [] pc = "exec"   -> {[loc |-> "MessageTable", mode |-> "read"]}

InitConc ==
    /\ Tables = EmptyMap
    /\ tableExistsCache = EmptyMap
    /\ db = [n \in {GetTableName(ConcType)} |->
                [exists |-> TRUE, cols |-> Created(ConcType, NoOptions).cols,
                 rows |-> <<>>, key |-> <<"id">>]]
    /\ last = NoCall
    /\ running = EmptyMap
    /\ saved = EmptyMap

ConcRegister ==
    /\ Tables = EmptyMap
    /\ running = EmptyMap
    /\ RegisterTable(ConcType, TableOptions(<<"id">>, "", <<>>))

\* a goroutine enters Save or FindOne
ConcStart(p) ==
    \E op \in ConcOps :
        /\ p \notin DOMAIN running
        /\ GetTableName(ConcType) \in DOMAIN Tables
        /\ last.err = Nil
        /\ running' = MapPut(running, p,
                              [op |-> op, key |-> p, pc |-> "lookup", touched |-> {}])
        /\ UNCHANGED <<Tables, tableExistsCache, db, last, saved>>

\* table, ok := p.Tables[tableName]
ConcLookup(p) ==
    /\ p \in DOMAIN running
    /\ running[p].pc = "lookup"
    /\ running' = [running EXCEPT
                      ![p].pc = "exec",
                      ![p].touched = @ \cup Touches(running[p].op, "lookup")]
    /\ UNCHANGED <<Tables, tableExistsCache, db, last, saved>>

\* the record of a call that returned
ConcReturn(p, input, fails, err, stmts, dest) ==
    [Call(running[p].op, GetTableName(ConcType), err, stmts) EXCEPT
        !.arg = [message |-> input, key |-> running[p].key, fails |-> fails,
                 touched |-> running[p].touched \cup Touches(running[p].op, "exec")],
        !.dest = dest]

\* the rest of Save: build the REPLACE, execute it, return
ConcSave(p) ==
    \E execFails \in BOOLEAN :
        /\ p \in DOMAIN running
        /\ running[p].pc = "exec"
        /\ running[p].op = "Save"
        /\ LET message == ConcRecord(running[p].key)
               out == Save(message, execFails)
           IN /\ db' = out.db
              /\ saved' = IF out.err = Nil THEN MapPut(saved, running[p].key, message)
                          ELSE saved
              /\ last' = ConcReturn(p, message, execFails, out.err, out.stmts, message)
        /\ running' = MapRemove(running, p)
        /\ UNCHANGED <<Tables, tableExistsCache>>

\* the rest of FindOne: build the SELECT, query, scan and parse, return
ConcFind(p) ==
    \E fails \in {"none", "query"} :
        /\ p \in DOMAIN running
        /\ running[p].pc = "exec"
        /\ running[p].op # "Save"
        /\ LET message == Message(ConcType, {"name"})
               out == IF running[p].op = "FindOneByKV"
                      THEN FindOneByKV(message, "id", ConcKey(running[p].key), fails)
                      ELSE FindOneByWhereWithArgs(message, <<"id", "=", "?">>,
                                                  <<ConcKey(running[p].key)>>, fails)
           IN last' = ConcReturn(p, message, fails, out.err, out.stmts, out.dest)
        /\ running' = MapRemove(running, p)
        /\ UNCHANGED <<Tables, tableExistsCache, db, saved>>

NextConc ==
    \/ ConcRegister
    \/ \E p \in Callers : ConcStart(p)
    \/ \E p \in Callers : ConcLookup(p)
    \/ \E p \in Callers : ConcSave(p)
    \/ \E p \in Callers : ConcFind(p)

SpecConc == InitConc /\ [][NextConc]_vars

ConcReads == {"FindOneByKV", "FindOneByWhereWithArgs"}

-----------------------------------------------------------------------------
(* Schema creation: a type is registered and its table is created or
   updated against a database in which the table is absent, complete, or
   lacks columns *)

SchemaType == Descriptor(MaxFields)

SchemaTables ==
    {NoTable, Created(SchemaType, NoOptions), Created(Descriptor(1), NoOptions)}

InitSchema ==
    /\ Tables = EmptyMap
    /\ tableExistsCache = EmptyMap
    /\ \E t \in SchemaTables : db = [n \in {GetTableName(SchemaType)} |-> t]
    /\ last = NoCall
    /\ running = EmptyMap
    /\ saved = EmptyMap

SchemaRegister ==
    \E o \in SyncOptions :
        /\ last.op # "RegisterTable"
        /\ RegisterTable(SchemaType, o)

SchemaCreateOrUpdate ==
    \E createFails \in BOOLEAN, f \in Failures :
        /\ ~createFails => f = "none"
        /\ CreateOrUpdateTable(SchemaType, createFails, f)

SchemaUpdate == \E f \in Failures : UpdateTableField(SchemaType, f)

NextSchema == SchemaRegister \/ SchemaCreateOrUpdate \/ SchemaUpdate

SpecSchema == InitSchema /\ [][NextSchema]_vars

\* C15: a public operation in which the execution of a statement failed
\* returns an error.
C15_FailedStatementReturnsError ==
    (\E i \in DOMAIN last.stmts : ~last.stmts[i].ok) => last.err # Nil

-----------------------------------------------------------------------------
(* The codec: records of every field kind are serialized to a row and rows
   are parsed into records *)

TimestampField(n) == [name |-> n, kind |-> "message", card |-> "single",
                      msg |-> timestampFullName]

NestedField(n) == [name |-> n, kind |-> "message", card |-> "single", msg |-> "pkg.Inner"]

CodecFields ==
    {FD("v", "int32"), FD("v", "uint32"), FD("v", "int64"), FD("v", "uint64"),
     FD("v", "float"), FD("v", "double"), FD("v", "bool"), FD("v", "string"),
     FD("v", "bytes"), FD("v", "enum"), TimestampField("v"), NestedField("v"),
     ListOf("v", "int32", ""), MapOf("v"), FD("v", "sint32")}

\* a message type with an id and one field of the kind
CodecType(fd) ==
    [fullName |-> "pkg.Codec", name |-> "Codec", fields |-> <<FD("id", "int32"), fd>>]

CodecTypes == {CodecType(fd) : fd \in CodecFields}

\* presence is explicit on message fields, and a repeated or map field is
\* present when it has elements
ExplicitPresence(fd) == fd.kind = "message" /\ ~IsList(fd) /\ ~IsMap(fd)

\* the values a field of the type's kind takes, with its presence
CodecValues(fd) ==
    IF IsList(fd) \/ IsMap(fd)
    THEN {[has |-> FALSE, v |-> <<>>], [has |-> TRUE, v |-> <<7>>]}
    ELSE IF ExplicitPresence(fd)
    THEN {[has |-> FALSE, v |-> 0], [has |-> TRUE, v |-> 0], [has |-> TRUE, v |-> 7]}
    ELSE {[has |-> FALSE, v |-> Zero(fd.kind)], [has |-> TRUE, v |-> Sample(fd.kind)]}

CodecRecord(desc, id, x) ==
    [desc |-> desc,
     has |-> (IF id # 0 THEN {"id"} ELSE {}) \cup (IF x.has THEN {"v"} ELSE {}),
     val |-> [n \in {"id", "v"} |-> IF n = "id" THEN id ELSE x.v]]

CodecRecords(desc) ==
    {CodecRecord(desc, id, x) : id \in {0, 7}, x \in CodecValues(desc.fields[2])}

\* the record a caller allocates to read into
Fresh(desc) ==
    CodecRecord(desc, 0, CHOOSE x \in CodecValues(desc.fields[2]) :
                            ~x.has /\ \A y \in CodecValues(desc.fields[2]) : ~y.has => y = x)

\* the columns a row may hold for the field: nothing, what a record's field
\* serializes to, text that no field serializes to
CodecColumns(desc) ==
    {"", "x!"} \cup
    {SerializeFieldAsString(m, desc.fields[2]).val :
        m \in {r \in CodecRecords(desc) : SerializeFieldAsString(r, desc.fields[2]).err = Nil}}
    \cup (IF IsList(desc.fields[2]) \/ IsMap(desc.fields[2]) THEN {"CAc="} ELSE {})

CodecRows(desc) ==
    {<<id, c>> : id \in {"", "7"}, c \in CodecColumns(desc)} \cup {<<"7">>}

InitCodec ==
    /\ Tables = EmptyMap
    /\ tableExistsCache = EmptyMap
    /\ db = EmptyMap
    /\ last = NoCall
    /\ running = EmptyMap
    /\ saved = EmptyMap

\* the fields of a record are serialized (the functions are pure: every
\* call is made from the initial state)
CallSerialize ==
    \E desc \in CodecTypes : \E m \in CodecRecords(desc) :
        LET s == SerializeFields(m, desc.fields) IN
        last = NoCall /\
        Unchanged([Call("SerializeFieldAsString", "", s.err, <<>>) EXCEPT
                      !.arg = m, !.dest = s.args])

\* a row is parsed into a record that is fresh or already holds values
CallParseFromString ==
    \E desc \in CodecTypes :
    \E m \in {Fresh(desc)} \cup {r \in CodecRecords(desc) : r.has = {"id", "v"}},
       row \in CodecRows(desc) :
        LET out == ParseFromString(m, row) IN
        last = NoCall /\
        Unchanged([Call("ParseFromString", "", out.err, <<>>) EXCEPT
                      !.arg = [message |-> m, row |-> row], !.dest = out.msg])

\* the row a record serializes to is parsed into a fresh record
CallRoundTrip ==
    \E desc \in CodecTypes : \E m \in CodecRecords(desc) :
        LET s == SerializeFields(m, desc.fields)
            out == IF s.err # Nil THEN [msg |-> Fresh(desc), err |-> s.err]
                   ELSE ParseFromString(Fresh(desc), s.args)
        IN last = NoCall /\
           Unchanged([Call("RoundTrip", "", out.err, <<>>) EXCEPT
                         !.arg = m, !.dest = out.msg])

NextCodec == CallSerialize \/ CallParseFromString \/ CallRoundTrip

SpecCodec == InitCodec /\ [][NextCodec]_vars

SupportedKind(fd) == fd.kind # "sint32"

\* C16: for a record of every supported field kind, parsing the row its
\* fields serialize to gives the record back.
C16_RoundTrip ==
    (last.op = "RoundTrip" /\ SupportedKind(last.arg.desc.fields[2])) =>
        (last.err = Nil /\ last.dest = last.arg)

ScalarKinds ==
    {"int32", "uint32", "int64", "uint64", "float", "double", "bool", "string", "enum"}

\* C17: after ParseFromString of a row whose column for a scalar field is
\* the empty string, the field holds the zero of its kind, whatever it held
\* before, and no error is returned.
C17_EmptyColumnIsZero ==
    (/\ last.op = "ParseFromString"
     /\ Len(last.arg.row) >= 2
     /\ last.arg.row[2] = ""
     /\ last.arg.message.desc.fields[2].card = "single"
     /\ last.arg.message.desc.fields[2].kind \in ScalarKinds) =>
        /\ last.err = Nil
        /\ last.dest.val["v"] = Zero(last.arg.message.desc.fields[2].kind)
        /\ "v" \notin last.dest.has

-----------------------------------------------------------------------------
\* the field's column type comes from the type-mapping table or from one of
\* the rules for timestamps, lists and maps
Mapped(fieldDesc) ==
    \/ fieldDesc.msg = timestampFullName
    \/ IsMap(fieldDesc) \/ IsList(fieldDesc)
    \/ fieldDesc.kind \in MySQLFieldTypesDomain

\* C18: no registered type has a field of a kind without an entry in the
\* type-mapping table: RegisterTable of such a type returns an error and
\* leaves no registry entry.
C18_UnmappedKindRejected ==
    /\ \A t \in DOMAIN Tables :
          \A i \in DOMAIN Tables[t].Descriptor.fields :
             Mapped(Tables[t].Descriptor.fields[i])
    /\ (last.op = "RegisterTable" /\ last.table = GetTableName(OddDescriptor)) =>
          last.err # Nil

\* C19: in every registry entry each configured primary-key name is a
\* field the type declares.
C19_PrimaryKeyDeclared ==
    \A t \in DOMAIN Tables :
        \A i \in DOMAIN Tables[t].primaryKey :
            Tables[t].primaryKey[i] \in FieldNames(Tables[t].Descriptor)

-----------------------------------------------------------------------------
\* another value of the kind
Other(kind) ==
    CASE kind = "string" -> "b"
      [] kind = "bool"   -> FALSE
      [] OTHER           -> 3

\* the record with the same fields present and other values in them: zeros
\* (fields with explicit presence) or other non-zero values
Revalued(message, zero) ==
    [message EXCEPT !.val =
        [n \in DOMAIN message.val |->
            IF n \in message.has
            THEN LET fd == CHOOSE f \in Range(message.desc.fields) : f.name = n
                 IN IF zero THEN Zero(fd.kind) ELSE Other(fd.kind)
            ELSE message.val[n]]]

RecordBuilders ==
    {"GetInsertSQLWithArgs", "GetInsertOnDupUpdateSQLWithArgs",
     "GetInsertOnDupKeyForPrimaryKeyWithArgs", "GetReplaceSQLWithArgs",
     "GetUpdateSQLWithArgs", "GetDeleteSQLWithArgs"}

\* the statement the named builder returns
BuiltBy(op, m, arg) ==
    CASE op = "GetInsertSQLWithArgs" -> GetInsertSQLWithArgs(m, arg)
      [] op = "GetBatchInsertSQLWithArgs" -> GetBatchInsertSQLWithArgs(m, arg)
      [] op = "GetInsertOnDupUpdateSQLWithArgs" -> GetInsertOnDupUpdateSQLWithArgs(m, arg)
      [] op = "GetInsertOnDupKeyForPrimaryKeyWithArgs" ->
            GetInsertOnDupKeyForPrimaryKeyWithArgs(m, arg)
      [] op = "GetReplaceSQLWithArgs" -> GetReplaceSQLWithArgs(m, arg)
      [] op = "GetUpdateSQLWithArgs" -> GetUpdateSQLWithArgs(m, arg)
      [] op = "GetDeleteSQLWithArgs" -> GetDeleteSQLWithArgs(m, arg)

\* the builder's argument with other values in the present fields
RevaluedArg(op, arg, zero) ==
    IF op = "GetBatchInsertSQLWithArgs"
    THEN [i \in DOMAIN arg |-> Revalued(arg[i], zero)]
    ELSE Revalued(arg, zero)

\* C20: the Sql text a record-taking builder returns is the same for every
\* record (every batch) with the same fields present, whatever their
\* values, and no value of the record is a token of it.
C20_SqlIndependentOfValues ==
    (last.op \in RecordBuilders \cup {"GetBatchInsertSQLWithArgs"}
        /\ last.table \in DOMAIN Tables) =>
        /\ \A zero \in BOOLEAN :
              LET other == RevaluedArg(last.op, last.arg, zero) IN
              other # last.arg =>
                 LET q == BuiltBy(last.op, Tables[last.table], other) IN
                 /\ q.ok = last.built.ok
                 /\ q.Sql = last.built.Sql
        /\ \A i \in DOMAIN last.built.Args :
              last.built.Args[i] \notin Range(last.built.Sql)

\* a statement was built for a record with values in two fields
C20_Witness ==
    /\ last.op \in RecordBuilders
    /\ last.built.ok
    /\ Cardinality(last.arg.has) >= 2
    /\ Revalued(last.arg, FALSE) # last.arg
    /\ BuiltBy(last.op, Tables[last.table], Revalued(last.arg, FALSE)).Args
           # last.built.Args

\* a statement was built for a batch of two records, one with values
C20_WitnessBatch ==
    /\ last.op = "GetBatchInsertSQLWithArgs"
    /\ last.built.ok
    /\ Len(last.arg) = 2
    /\ last.arg[2].has # {}

-----------------------------------------------------------------------------
(* Save and FindOneByKV, one call after the other, on a table the engine
   created for a type registered with the primary key id *)

SaveType == Descriptor(MaxFields)

SaveKeys == 1..2

\* the records with the given key: the other fields set or not
SaveRecords(k) ==
    {[Message(SaveType, h \cup {"id"}) EXCEPT !.val["id"] = k] :
        h \in SUBSET (FieldNames(SaveType) \ {"id"})}

SaveKey(k) == SerializeFieldAsString(Numbered(SaveType, k), FD("id", "int32")).val

InitSave ==
    /\ Tables = EmptyMap
    /\ tableExistsCache = EmptyMap
    /\ db = [n \in {GetTableName(SaveType)} |-> NoTable]
    /\ last = NoCall
    /\ running = EmptyMap
    /\ saved = EmptyMap

SaveRegister ==
    /\ Tables = EmptyMap
    /\ RegisterTable(SaveType, TableOptions(<<"id">>, "", <<>>))

SaveCreate ==
    /\ ~db[GetTableName(SaveType)].exists
    /\ CreateOrUpdateTable(SaveType, FALSE, "none")

CallSave ==
    \E k \in SaveKeys, execFails \in BOOLEAN : \E m \in SaveRecords(k) :
        LET out == Save(m, execFails) IN
        /\ last.err = Nil
        /\ Tables' = Tables
        /\ tableExistsCache' = tableExistsCache
        /\ db' = out.db
        /\ last' = [Call("Save", GetTableName(SaveType), out.err, out.stmts) EXCEPT
                       !.arg = m]
        /\ running' = running
        /\ saved' = IF out.err = Nil THEN MapPut(saved, k, m) ELSE saved

CallFindSaved ==
    \E k \in SaveKeys, fails \in {"none", "query"} :
        LET m == Message(SaveType, {"name"})
            out == FindOneByKV(m, "id", SaveKey(k), fails)
        IN /\ last.err = Nil
           /\ Unchanged([Call("FindOneByKV", GetTableName(SaveType), out.err, out.stmts)
                            EXCEPT !.arg = [message |-> m, key |-> k, fails |-> fails],
                                   !.dest = out.dest])

NextSave == SaveRegister \/ SaveCreate \/ CallSave \/ CallFindSaved

SpecSave == InitSave /\ [][NextSave]_vars

\* the rows of the type's table that carry the key
RowsWithKey(k) ==
    {i \in DOMAIN db[GetTableName(SaveType)].rows :
        db[GetTableName(SaveType)].rows[i]["id"] = SaveKey(k)}

\* C21: after a Save that returned nil the table holds one row with the
\* record's key, and FindOneByKV on a key returns nil and the record last
\* saved under it, also when a row with that key had been saved before.
C21_SaveReplacesByKey ==
    /\ (last.op = "Save" /\ last.err = Nil) =>
          /\ Cardinality(RowsWithKey(last.arg.val["id"])) = 1
          /\ \A i \in RowsWithKey(last.arg.val["id"]) :
                db[GetTableName(SaveType)].rows[i] = RowOf(last.arg)
    /\ (last.op = "FindOneByKV" /\ last.arg.fails = "none"
            /\ last.arg.key \in DOMAIN saved) =>
          (last.err = Nil /\ last.dest = saved[last.arg.key])

\* a record was saved over an earlier, different record with its key
C21_Witness ==
    /\ last.op = "Save"
    /\ last.err = Nil
    /\ last.liveBefore.exists
    /\ \E i \in DOMAIN last.liveBefore.rows :
          /\ last.liveBefore.rows[i]["id"] = SaveKey(last.arg.val["id"])
          /\ last.liveBefore.rows[i] # RowOf(last.arg)
    /\ Len(db[GetTableName(SaveType)].rows) = 2

\* FindOneByKV returned the record that replaced an earlier one
C21_WitnessFind ==
    /\ last.op = "FindOneByKV"
    /\ last.err = Nil
    /\ last.arg.key \in DOMAIN saved
    /\ last.dest = saved[last.arg.key]
    /\ last.dest # last.arg.message
    /\ DOMAIN saved = SaveKeys

-----------------------------------------------------------------------------
\* C22: a step leaves the contents of a populated live-column cache as they
\* are or clears the cache, and populates an empty cache with the complete
\* column map of the live table; it never adds or removes single entries.
C22_CacheNeverPartiallyUpdated ==
    [][\A t \in DOMAIN Tables \cap DOMAIN Tables' :
          Tables'[t].cachedColumns.populated =>
             IF Tables[t].cachedColumns.populated
             THEN Tables'[t].cachedColumns.cols = Tables[t].cachedColumns.cols
             ELSE Tables'[t].cachedColumns.cols = db[t].cols]_vars

-----------------------------------------------------------------------------
(* The caches and their locks: goroutines run UpdateTableField and
   IsTableExists against one registered type, one call each, a step per
   lock operation, per database call and for the field loop.  A column map
   is an object named after the call that made it: running[o].obj is what
   the map of call o holds, and the cache and the callers refer to it by
   that name. *)

MuType == Descriptor(2)

MuTable == GetTableName(MuType)

MuOps == {"UpdateTableField", "IsTableExists"}

\* the nil map: currentCols before getTableColumns has returned
NoMap == 0

\* the live tables the calls may find: none, one that lacks a column, one
\* that is complete
MuTables ==
    {NoTable, Created(Descriptor(1), NoOptions), Created(MuType, NoOptions)}

InitMu ==
    /\ Tables = EmptyMap
    /\ tableExistsCache = EmptyMap
    /\ \E t \in MuTables : db = [n \in {MuTable} |-> t]
    /\ last = NoCall
    /\ running = EmptyMap
    /\ saved = EmptyMap

MuRegister ==
    /\ Tables = EmptyMap
    /\ running = EmptyMap
    /\ RegisterTable(MuType, NoOptions)

\* sync.RWMutex: the lock is free for a reader when no other caller holds
\* it for writing, for a writer when no other caller holds it
CanRLock(lock, p) ==
    \A q \in DOMAIN running \ {p} : <<lock, "W">> \notin running[q].holds

CanLock(lock, p) ==
    \A q \in DOMAIN running \ {p} :
        <<lock, "R">> \notin running[q].holds /\ <<lock, "W">> \notin running[q].holds

\* an RUnlock that does not release
RUnlock_Held(holds, lock) == holds
RUnlock(holds, lock) == holds \ {<<lock, "R">>}

Unlock(holds, lock) == holds \ {<<lock, "W">>}

\* an access to the contents of the cached column map, and the locks held
\* while it is made
Access(mode, holds) ==
    [loc |-> "cachedColumns", mode |-> mode,
     locked |-> IF <<"columnsMu", "W">> \in holds THEN "W"
                ELSE IF <<"columnsMu", "R">> \in holds THEN "R" ELSE "none"]

MuStart(p) ==
    \E op \in MuOps :
        /\ p \notin DOMAIN running
        /\ MuTable \in DOMAIN Tables
        /\ running' = MapPut(running, p,
              [op |-> op, pc |-> "e.rlock", holds |-> {}, exists |-> FALSE,
               ref |-> NoMap, obj |-> EmptyMap, alterSQLs |-> <<>>,
               stale |-> {}, storedStale |-> FALSE, touched |-> {}, err |-> Nil])
        /\ UNCHANGED <<Tables, tableExistsCache, db, last, saved>>

At(p, pc) == p \in DOMAIN running /\ running[p].pc = pc

Step(p, call) ==
    /\ running' = [running EXCEPT ![p] = call]
    /\ UNCHANGED <<Tables, tableExistsCache, db, last, saved>>

\* the call returns: its outcome is the last outcome, and its record stays
\* for the map it made
MuReturn(p, call, err, newTables, newCache, newDb) ==
    /\ running' = [running EXCEPT ![p] = [call EXCEPT !.pc = "done", !.err = err]]
    /\ Tables' = newTables
    /\ tableExistsCache' = newCache
    /\ db' = newDb
    /\ last' = [Call(call.op, MuTable, err, <<>>) EXCEPT
                   !.arg = [caller |-> p, touched |-> call.touched,
                            storedStale |-> call.storedStale, holds |-> call.holds]]
    /\ saved' = saved

\* IsTableExists: p.tableExistsMu.RLock()
ExistsRLock(p) ==
    /\ At(p, "e.rlock")
    /\ CanRLock("tableExistsMu", p)
    /\ Step(p, [running[p] EXCEPT !.pc = "e.read",
                                  !.holds = @ \cup {<<"tableExistsMu", "R">>}])

\* what follows IsTableExists in the operation of the call
AfterExists(p, call) ==
    IF call.op = "IsTableExists"
    THEN MuReturn(p, call, Nil, Tables, tableExistsCache, db)
    ELSE Step(p, [call EXCEPT !.pc = IF call.exists THEN "g.rlock" ELSE "create"])

\* the read of tableExistsCache and the RUnlock on either path
ExistsRead(p) ==
    /\ At(p, "e.read")
    /\ LET call == [running[p] EXCEPT !.holds = RUnlock(@, "tableExistsMu")] IN
       IF MuTable \in DOMAIN tableExistsCache
       THEN AfterExists(p, [call EXCEPT !.exists = tableExistsCache[MuTable]])
       ELSE Step(p, [call EXCEPT !.pc = "e.query"])

\* the query of INFORMATION_SCHEMA.TABLES
ExistsQuery(p) ==
    \E fails \in BOOLEAN :
        /\ At(p, "e.query")
        /\ IF fails THEN MuReturn(p, running[p], "db", Tables, tableExistsCache, db)
           ELSE Step(p, [running[p] EXCEPT !.pc = "e.lock",
                                          !.exists = db[MuTable].exists])

\* p.tableExistsMu.Lock()
ExistsLock(p) ==
    /\ At(p, "e.lock")
    /\ CanLock("tableExistsMu", p)
    /\ Step(p, [running[p] EXCEPT !.pc = "e.store",
                                  !.holds = @ \cup {<<"tableExistsMu", "W">>}])

\* p.tableExistsCache[tableName] = exists, Unlock, and what follows
ExistsStore(p) ==
    /\ At(p, "e.store")
    /\ LET call == [running[p] EXCEPT !.holds = Unlock(@, "tableExistsMu")]
           cache == MapPut(tableExistsCache, MuTable, call.exists)
       IN IF call.op = "IsTableExists"
          THEN MuReturn(p, call, Nil, Tables, cache, db)
          ELSE /\ running' = [running EXCEPT ![p] =
                                [call EXCEPT !.pc = IF call.exists THEN "g.rlock"
                                                    ELSE "create"]]
               /\ tableExistsCache' = cache
               /\ UNCHANGED <<Tables, db, last, saved>>

\* UpdateTableField on a table that does not exist: Exec of the CREATE
MuCreate(p) ==
    \E fails \in BOOLEAN :
        /\ At(p, "create")
        /\ IF fails THEN MuReturn(p, running[p], "db", Tables, tableExistsCache, db)
           ELSE /\ running' = [running EXCEPT ![p].pc = "u.lock"]
                /\ db' = [db EXCEPT ![MuTable] =
                             DbCreateTable(@, GetCreateTableSQL(Tables[MuTable]))]
                /\ UNCHANGED <<Tables, tableExistsCache, last, saved>>

\* updateTableExistsCache: p.tableExistsMu.Lock()
UpdateExistsLock(p) ==
    /\ At(p, "u.lock")
    /\ CanLock("tableExistsMu", p)
    /\ Step(p, [running[p] EXCEPT !.pc = "u.store",
                                  !.holds = @ \cup {<<"tableExistsMu", "W">>}])

\* updateTableExistsCache: the store and the Unlock; UpdateTableField returns
UpdateExistsStore(p) ==
    /\ At(p, "u.store")
    /\ MuReturn(p, [running[p] EXCEPT !.holds = Unlock(@, "tableExistsMu")], Nil,
                Tables, updateTableExistsCache(tableExistsCache, MuTable, TRUE), db)

\* getTableColumns: table.columnsMu.RLock()
ColumnsRLock(p) ==
    /\ At(p, "g.rlock")
    /\ CanRLock("columnsMu", p)
    /\ Step(p, [running[p] EXCEPT !.pc = "g.read",
                                  !.holds = @ \cup {<<"columnsMu", "R">>}])

\* the test of table.cachedColumns: on a hit the cached map is returned and
\* the deferred RUnlock runs, on a miss RUnlock runs before the query
ColumnsRead(p) ==
    /\ At(p, "g.read")
    /\ LET cache == Tables[MuTable].cachedColumns
           call == [running[p] EXCEPT !.holds = RUnlock(@, "columnsMu")]
       IN IF cache.populated
          THEN Step(p, [call EXCEPT !.pc = "loop", !.ref = cache.ref])
          ELSE Step(p, [call EXCEPT !.pc = "g.query"])

\* the query of INFORMATION_SCHEMA.COLUMNS into a new map
ColumnsQuery(p) ==
    \E fails \in BOOLEAN :
        /\ At(p, "g.query")
        /\ IF fails THEN MuReturn(p, running[p], "db", Tables, tableExistsCache, db)
           ELSE Step(p, [running[p] EXCEPT !.pc = "g.lock", !.ref = p,
                                          !.obj = db[MuTable].cols])

\* table.columnsMu.Lock()
ColumnsLock(p) ==
    /\ At(p, "g.lock")
    /\ CanLock("columnsMu", p)
    /\ Step(p, [running[p] EXCEPT !.pc = "g.store",
                                  !.holds = @ \cup {<<"columnsMu", "W">>}])

\* table.cachedColumns = columns, Unlock.  The map is stale when an ALTER
\* followed its read and the caller of that ALTER has cleared the cache.
ColumnsStore(p) ==
    /\ At(p, "g.store")
    /\ running' = [running EXCEPT ![p] =
                     [running[p] EXCEPT !.pc = "loop",
                                        !.holds = Unlock(@, "columnsMu"),
                                        !.storedStale =
                                           \E a \in running[p].stale :
                                               running[a].pc = "done"]]
    /\ Tables' = SetCache(Tables, MuTable,
                          [populated |-> TRUE, cols |-> running[p].obj, ref |-> p])
    /\ UNCHANGED <<tableExistsCache, db, last, saved>>

\* the map is the one the cache holds
IsCached(ref) ==
    LET cache == Tables[MuTable].cachedColumns IN
    cache.populated /\ cache.ref = ref

\* the field loop of UpdateTableField on currentCols: lookups in the map and
\* delete(currentCols, fieldName), with no lock held
MuLoop(p) ==
    /\ At(p, "loop")
    /\ LET call == running[p]
           o == call.ref
           sync == SyncFields(Tables[MuTable], MuType.fields, 1, running[o].obj, <<>>)
           pruned == [running EXCEPT ![o].obj = sync.cols]
           touched == call.touched \cup
                      IF IsCached(o)
                      THEN {Access("read", call.holds)} \cup
                           IF sync.cols # running[o].obj
                           THEN {Access("write", call.holds)} ELSE {}
                      ELSE {}
           next == [pruned[p] EXCEPT !.touched = touched, !.alterSQLs = sync.alterSQLs]
           newTables == IF IsCached(o)
                        THEN SetCache(Tables, MuTable,
                                      [Tables[MuTable].cachedColumns EXCEPT
                                          !.cols = sync.cols])
                        ELSE Tables
       IN IF Len(sync.alterSQLs) = 0
          THEN /\ running' = [pruned EXCEPT ![p] = [next EXCEPT !.pc = "done"]]
               /\ Tables' = newTables
               /\ last' = [Call(call.op, MuTable, Nil, <<>>) EXCEPT
                              !.arg = [caller |-> p, touched |-> touched,
                                       storedStale |-> call.storedStale,
                                       holds |-> call.holds]]
               /\ UNCHANGED <<tableExistsCache, db, saved>>
          ELSE /\ running' = [pruned EXCEPT ![p] = [next EXCEPT !.pc = "alter"]]
               /\ Tables' = newTables
               /\ UNCHANGED <<tableExistsCache, db, last, saved>>

\* a caller that holds a column map it read from the catalog and has not
\* stored yet
HoldsUnstored(call) == call.pc \in {"g.lock", "g.store"}

\* Exec of the ALTER TABLE statement; the maps other callers hold unstored
\* were read before it
MuAlter(p) ==
    \E fails \in BOOLEAN :
        /\ At(p, "alter")
        /\ IF fails \/ ~DbAlterValid(db[MuTable], running[p].alterSQLs)
           THEN MuReturn(p, running[p], "db", Tables, tableExistsCache, db)
           ELSE /\ running' = [q \in DOMAIN running |->
                                IF q = p THEN [running[q] EXCEPT !.pc = "c.lock"]
                                ELSE IF HoldsUnstored(running[q])
                                THEN [running[q] EXCEPT !.stale = @ \cup {p}]
                                ELSE running[q]]
                /\ db' = [db EXCEPT ![MuTable] = DbAlter(@, running[p].alterSQLs)]
                /\ UNCHANGED <<Tables, tableExistsCache, last, saved>>

\* clearColumnCache: table.columnsMu.Lock()
ClearLock(p) ==
    /\ At(p, "c.lock")
    /\ CanLock("columnsMu", p)
    /\ Step(p, [running[p] EXCEPT !.pc = "c.clear",
                                  !.holds = @ \cup {<<"columnsMu", "W">>}])

\* clearColumnCache: table.cachedColumns = nil, Unlock; UpdateTableField
\* returns
ClearStore(p) ==
    /\ At(p, "c.clear")
    /\ LET call == [running[p] EXCEPT !.holds = Unlock(@, "columnsMu")]
       IN /\ running' = [running EXCEPT ![p] = [call EXCEPT !.pc = "done"]]
          /\ Tables' = SetCache(Tables, MuTable, clearColumnCache(Tables[MuTable].cachedColumns))
          /\ last' = [Call(call.op, MuTable, Nil, <<>>) EXCEPT
                         !.arg = [caller |-> p, touched |-> call.touched,
                                  storedStale |-> call.storedStale, holds |-> call.holds]]
          /\ UNCHANGED <<tableExistsCache, db, saved>>

NextMu ==
    \/ MuRegister
    \/ \E p \in Callers : MuStart(p)
    \/ \E p \in Callers : ExistsRLock(p)
    \/ \E p \in Callers : ExistsRead(p)
    \/ \E p \in Callers : ExistsQuery(p)
    \/ \E p \in Callers : ExistsLock(p)
    \/ \E p \in Callers : ExistsStore(p)
    \/ \E p \in Callers : MuCreate(p)
    \/ \E p \in Callers : UpdateExistsLock(p)
    \/ \E p \in Callers : UpdateExistsStore(p)
    \/ \E p \in Callers : ColumnsRLock(p)
    \/ \E p \in Callers : ColumnsRead(p)
    \/ \E p \in Callers : ColumnsQuery(p)
    \/ \E p \in Callers : ColumnsLock(p)
    \/ \E p \in Callers : ColumnsStore(p)
    \/ \E p \in Callers : MuLoop(p)
    \/ \E p \in Callers : MuAlter(p)
    \/ \E p \in Callers : ClearLock(p)
    \/ \E p \in Callers : ClearStore(p)

SpecMu == InitMu /\ [][NextMu]_vars

\* C23: every access to the contents of the cached column map is made with
\* columnsMu held, a modification with the write lock.
C23_CacheAccessedUnderLock ==
    \A p \in DOMAIN running : \A a \in running[p].touched :
        /\ a.locked # "none"
        /\ a.mode = "write" => a.locked = "W"

\* C26: once an ALTER has succeeded and its caller has invalidated the
\* cache, no caller stores in the cache a column map it read from the
\* catalog before that ALTER.
C26_NoStaleMapAfterInvalidation ==
    \A p \in DOMAIN running : ~running[p].storedStale

\* the steps at which a catalog query or a statement is executing
QueryPcs == {"e.query", "g.query", "create", "alter"}

\* the steps a call is at when the cache function it was in has returned
ReturnedPcs == {"g.rlock", "loop", "c.lock", "done"}

\* C30: getTableColumns, clearColumnCache, IsTableExists and
\* updateTableExistsCache hold neither columnsMu nor tableExistsMu while a
\* catalog query or a statement is executing, nor after they have returned,
\* error returns included.
C30_NoLockHeldAcrossQuery ==
    /\ \A p \in DOMAIN running :
          running[p].pc \in QueryPcs \cup ReturnedPcs => running[p].holds = {}
    /\ last.op \in MuOps => last.arg.holds = {}

\* a catalog read of the columns is in flight while another caller holds
\* the write lock of the same cache
C30_Witness ==
    \E p, q \in DOMAIN running :
        /\ running[p].pc = "g.query"
        /\ running[q].pc = "g.store"
        /\ <<"columnsMu", "W">> \in running[q].holds

\* a catalog read failed and the call has returned its error
C30_WitnessError ==
    /\ last.op \in MuOps
    /\ last.err = "db"
    /\ running[last.arg.caller].pc = "done"
    /\ \E q \in DOMAIN running : running[q].holds # {}

-----------------------------------------------------------------------------
(* The type compatibility check on pairs of column types *)

\* column types the catalog reports and the synchronizer may aim at
ColumnTypes ==
    {<<W("int")>>, <<W("int"), W("unsigned")>>, <<W("bigint")>>,
     <<W("integer")>>, <<WP("tinyint", <<1>>)>>, <<W("bool")>>,
     <<WP("varchar", <<10>>)>>, <<WP("varchar", <<20>>)>>, <<WP("char", <<10>>)>>,
     <<W("float")>>, <<WP("float", <<10, 2>>)>>, <<WP("float", <<10, 4>>)>>,
     <<W("double")>>, <<W("mediumtext")>>, <<W("text")>>, <<W("datetime")>>,
     <<W("timestamp")>>}

InitType ==
    /\ Tables = EmptyMap
    /\ tableExistsCache = EmptyMap
    /\ db = EmptyMap
    /\ last = NoCall
    /\ running = EmptyMap
    /\ saved = EmptyMap

\* the check is applied to a live type and a target type
CallIsTypeMatch ==
    \E currentType, targetType \in ColumnTypes :
        last = NoCall /\
        Unchanged([Call("isTypeMatch", "", Nil, <<>>) EXCEPT
                      !.arg = [currentType |-> currentType, targetType |-> targetType],
                      !.dest = <<isTypeMatch(currentType, targetType)>>])

NextType == CallIsTypeMatch

SpecType == InitType /\ [][NextType]_vars

\* the live definition admits whatever the target definition admits
AtLeastAsPermissive(live, target) ==
    CASE typeMap(live.baseType) \in {"varchar", "char"} -> live.length >= target.length
      [] typeMap(live.baseType) \in {"int", "bigint", "tinyint", "smallint"} ->
            live.unsigned = target.unsigned
      [] typeMap(live.baseType) \in {"float", "double"} -> live.decimal >= target.decimal
      [] OTHER -> TRUE

\* C24: the check reports a live type compatible with the target only if
\* both are of one family and the live definition is at least as permissive
\* as the target (length of char/varchar, signedness of the integer types,
\* decimal precision of float/double).
C24_MatchOnlyIfPermissive ==
    last.op = "isTypeMatch" /\ last.dest = <<TRUE>> =>
        LET live == parseMySQLType(last.arg.currentType)
            target == parseMySQLType(last.arg.targetType)
        IN /\ typeMap(live.baseType) = typeMap(target.baseType)
           /\ AtLeastAsPermissive(live, target)

-----------------------------------------------------------------------------
\* the number of times the word occurs in the column type
Occurrences(type, word) == Cardinality({i \in DOMAIN type : type[i] = W(word)})

\* C25: in the CREATE TABLE text of a type with a configured auto-increment
\* field, the column clause of that field has no DEFAULT literal and has the
\* AUTO_INCREMENT attribute exactly once.
C25_AutoIncrementOnce ==
    \A i \in DOMAIN last.stmts :
        LET stmt == last.stmts[i] IN
        stmt.kind = "CREATE" /\ Tables[stmt.table].autoIncreaseKey # "" =>
            \A j \in DOMAIN stmt.clauses :
                LET c == stmt.clauses[j] IN
                c.action = "COLUMN" /\
                c.name = escapeMySQLName(Tables[stmt.table].autoIncreaseKey) =>
                    /\ Occurrences(c.type, "DEFAULT") = 0
                    /\ Occurrences(c.type, "AUTO_INCREMENT") = 1

-----------------------------------------------------------------------------
\* C27: when CreateOrUpdateTable has returned nil for a registered type, the
\* live table exists and has a column for every declared field, whether or
\* not the table existed (with fewer columns) before the call.
C27_AllFieldsHaveColumns ==
    last.op = "CreateOrUpdateTable" /\ last.err = Nil =>
        /\ db[last.table].exists
        /\ FieldNames(Tables[last.table].Descriptor) \subseteq DOMAIN db[last.table].cols

-----------------------------------------------------------------------------
\* the condition of a statement: what follows its WHERE
ConditionOf(sql) == SubSeq(sql, IndexOf(sql, "WHERE") + 1, Len(sql))

\* C28: for a table registered with a composite primary key the DELETE by
\* primary key constrains the columns the UPDATE by primary key constrains,
\* every configured key column, with the record's values of them.
C28_DeleteConstrainsWholeKey ==
    /\ last.op = "GetDeleteSQLWithArgs"
    /\ last.built.ok
    /\ Len(Tables[last.table].primaryKey) > 1
    => LET where == UpdateWhere(Tables[last.table], last.arg, Tables[last.table].primaryKey)
       IN /\ ConditionOf(last.built.Sql) = where.clause
          /\ last.built.Args = where.args

-----------------------------------------------------------------------------
(* Registration beside calls: one goroutine runs RegisterTable statement by
   statement while others call Save, Delete and Update for the same type *)

RegType == Descriptor(2)

RegTable == GetTableName(RegType)

RegOptions == TableOptions(<<"id">>, "", <<>>)

RegOps == {"Save", "Delete", "Update"}

RegRecords == {Numbered(RegType, k) : k \in 1..2} \cup {Message(RegType, FieldNames(RegType))}

\* the goroutine that registers, beside the callers
Registrar == MaxCallers + 1

InitReg ==
    /\ Tables = EmptyMap
    /\ tableExistsCache = EmptyMap
    /\ db = [n \in {RegTable} |-> Created(RegType, RegOptions)]
    /\ last = NoCall
    /\ running = EmptyMap
    /\ saved = EmptyMap

\* RegisterTable is entered: the MessageTable is made and the options are
\* applied to it
RegStart ==
    /\ Registrar \notin DOMAIN running
    /\ running' = MapPut(running, Registrar,
                          [op |-> "RegisterTable", pc |-> "store",
                           table |-> NewMessageTable(RegType, RegOptions)])
    /\ UNCHANGED <<Tables, tableExistsCache, db, last, saved>>

\* p.Tables[tableName] = table: the map write begins
RegStoreBegin ==
    /\ At(Registrar, "store")
    /\ running' = [running EXCEPT ![Registrar].pc = "storing"]
    /\ UNCHANGED <<Tables, tableExistsCache, db, last, saved>>

\* the map write ends: the entry is in the registry
RegStore ==
    /\ At(Registrar, "storing")
    /\ running' = [running EXCEPT ![Registrar].pc = "init"]
    /\ Tables' = MapPut(Tables, RegTable, running[Registrar].table)
    /\ UNCHANGED <<tableExistsCache, db, last, saved>>

\* table.Init() on the entry that is in the registry; RegisterTable returns
RegInit ==
    /\ At(Registrar, "init")
    /\ running' = [running EXCEPT ![Registrar].pc = "done"]
    /\ Tables' = [Tables EXCEPT ![RegTable] = MessageTableInit(@)]
    /\ last' = [Call("RegisterTable", RegTable, Nil, <<>>) EXCEPT !.arg = RegOptions]
    /\ UNCHANGED <<tableExistsCache, db, saved>>

\* the registry entry of the type as a call finds it
Observed == IF RegTable \in DOMAIN Tables THEN <<Tables[RegTable]>> ELSE <<>>

\* a goroutine calls Save, Delete or Update.  A read of the registry map
\* while RegisterTable writes it is a data race: the call sees the map as
\* it was or the runtime stops the program.
RegCall(p) ==
    \E op \in RegOps, message \in RegRecords, execFails, crash \in BOOLEAN :
        /\ p \notin DOMAIN running
        /\ Len(db[RegTable].rows) < MaxRows
        /\ last.err # "panic"
        /\ crash => At(Registrar, "storing")
        /\ LET out == CASE op = "Save" -> Save(message, execFails)
                        [] op = "Delete" -> Delete(message, execFails)
                        [] op = "Update" -> Update(message, execFails)
           IN IF crash
              THEN /\ last' = [Call(op, RegTable, "panic", <<>>) EXCEPT
                                  !.arg = [message |-> message, caller |-> p,
                                           observed |-> <<>>]]
                   /\ db' = db
              ELSE /\ last' = [Call(op, RegTable, out.err, out.stmts) EXCEPT
                                  !.arg = [message |-> message, caller |-> p,
                                           observed |-> Observed]]
                   /\ db' = out.db
        /\ running' = MapPut(running, p, [op |-> op, pc |-> "done"])
        /\ UNCHANGED <<Tables, tableExistsCache, saved>>

NextReg ==
    \/ RegStart
    \/ RegStoreBegin
    \/ RegStore
    \/ RegInit
    \/ \E p \in Callers : RegCall(p)

SpecReg == InitReg /\ [][NextReg]_vars

\* C29: a call that runs beside RegisterTable for its type finds no registry
\* entry, or one whose SQL fragments and name-to-descriptor index Init has
\* set.
C29_EntryVisibleAfterInit ==
    last.op \in RegOps =>
        \A i \in DOMAIN last.arg.observed :
            last.arg.observed[i] = MessageTableInit(last.arg.observed[i])

====
